---- MODULE Spec2Model ----
(***************************************************************************)
(* The deprecated-API pipeline of eslint-plugin-comfyui: the extractor     *)
(* script that files deprecation records in categories, the registry file  *)
(* it writes, and the ESLint rule no-deprecated-comfyui-apis that builds   *)
(* a lowercased name index from the registry and reports identifier        *)
(* occurrences.                                                            *)
(*                                                                         *)
(* Text is a sequence of one-character strings, so that lowercasing,       *)
(* regular-expression tests, concatenation and substring search are        *)
(* computed and not assumed.                                               *)
(***************************************************************************)
EXTENDS Integers, Sequences, FiniteSets, TLC

\* ------------------------------------------------------------------- state

VARIABLES
  pc,              \* "extract": the extractor runs; "written": the registry
                   \* file exists; "loaded": the rule module is loaded
  deprecatedApis,  \* the extractor's this.deprecatedApis
  scanned,         \* the records filed so far, in the order they were scanned
  registry,        \* the content of data/deprecated-apis.json
  deprecatedLookup,\* the rule module's Map from lowercased name to records
  ruleLevel,       \* the level of the rule entry the host lints under
  options,         \* severity, ignorePatterns, showContext of this create()
  todo,            \* the nodes the host's traversal has yet to visit
  visited,         \* the nodes it has visited in this file
  lookedUp,        \* the keys passed to deprecatedLookup.get for this file
  diags,           \* the diagnostics the host holds for this file
  disk,            \* the directories at the paths of FRONTEND_SOURCE_PATHS
  runs,            \* how many times main has been started
  rootIdx,         \* extract: the index of the next source path of its loop
  pending,         \* scanDirectory: the files its loops have yet to scan
  log,             \* what console.warn and console.error have printed
  found,           \* the items findDeprecatedItems has returned in this run,
                   \* each with the lines of its file
  output,          \* the object generateOutput returned to main
  previous,        \* the registry file as the run before this one left it
  later,           \* how many calls the extractor got after main's own
  lastIndex,       \* the lastIndex of each pattern of DEPRECATED_PATTERNS
  first,           \* the host: the result of the first file it linted
  paused           \* the host: a file whose traversal waits for another's

\* ------------------------------------------------------------------ text

UpperCase == <<"A","B","C","D","E","F","G","H","I","J","K","L","M","N","O","P","Q","R","S","T","U","V","W","X","Y","Z">>

LowerCase == <<"a","b","c","d","e","f","g","h","i","j","k","l","m","n","o","p","q","r","s","t","u","v","w","x","y","z">>

DigitChars == <<"0","1","2","3","4","5","6","7","8","9">>

Range(f) == {f[i] : i \in DOMAIN f}

UpperCaseChars == Range(UpperCase)

\* The lowercase letter of every uppercase letter.
LowerOf == [c \in UpperCaseChars |-> LowerCase[CHOOSE i \in DOMAIN UpperCase : UpperCase[i] = c]]

\* String.prototype.toLowerCase on one character.
charToLowerCase(c) == IF c \in UpperCaseChars THEN LowerOf[c] ELSE c

\* String.prototype.toLowerCase.
toLowerCase(s) == [i \in 1..Len(s) |-> charToLowerCase(s[i])]

WordChars == Range(UpperCase) \cup Range(LowerCase) \cup Range(DigitChars) \cup {"_"}

\* \w of a JavaScript regular expression.
IsWordChar(c) == c \in WordChars

\* \s of a JavaScript regular expression, over the characters of the model.
IsSpaceChar(c) == c \in {" ", "\t"}

\* s has the text lit at position p.
HasAt(s, p, lit) ==
  /\ p >= 1
  /\ p + Len(lit) - 1 <= Len(s)
  /\ \A k \in 1..Len(lit) : s[p + k - 1] = lit[k]

\* String.prototype.includes.
includes(s, lit) == \E p \in 1..(Len(s) + 1) : HasAt(s, p, lit)

\* Concatenation of a sequence of texts.
RECURSIVE Concat(_)
Concat(parts) == IF parts = <<>> THEN <<>> ELSE Head(parts) \o Concat(Tail(parts))

\* Number.prototype.toString for a natural number.
RECURSIVE NumToString(_)
NumToString(n) ==
  IF n < 10 THEN <<DigitChars[n + 1]>>
  ELSE NumToString(n \div 10) \o <<DigitChars[(n % 10) + 1]>>

\* --------------------------------------------- regular expressions (rule)

\* The pattern characters the model gives meaning to: literal word
\* characters, ".", "*", "^", "$", and "(" (which, never closed, makes the
\* pattern fail to compile).
\* new RegExp(pattern) does not throw a SyntaxError.
RegExpCompiles(p) ==
  \A i \in 1..Len(p) :
    /\ p[i] # "("
    /\ p[i] = "*" => (i > 1 /\ p[i - 1] \notin {"*", "^", "$"})

\* One pattern atom against one character.
AtomMatches(a, c) == IF a = "." THEN TRUE ELSE a = c

\* The pattern from index i matches the text s starting exactly at position j.
RECURSIVE MatchHere(_, _, _, _)
MatchHere(p, i, s, j) ==
  IF i > Len(p) THEN TRUE
  ELSE IF i + 1 <= Len(p) /\ p[i + 1] = "*"
  THEN \E k \in j..(Len(s) + 1) :
         /\ \A m \in j..(k - 1) : AtomMatches(p[i], s[m])
         /\ MatchHere(p, i + 2, s, k)
  ELSE IF p[i] = "^" THEN j = 1 /\ MatchHere(p, i + 1, s, j)
  ELSE IF p[i] = "$" THEN j = Len(s) + 1 /\ MatchHere(p, i + 1, s, j)
  ELSE /\ j <= Len(s)
       /\ AtomMatches(p[i], s[j])
       /\ MatchHere(p, i + 1, s, j + 1)

\* RegExp.prototype.test of a compiled pattern without flags: a match
\* anywhere in the text.
RegExpTest(p, s) == \E j \in 1..(Len(s) + 1) : MatchHere(p, 1, s, j)

\* ------------------------------------------------------ message templates

NoReasonProvided == <<"N","o"," ","r","e","a","s","o","n"," ","p","r","o","v","i","d","e","d">>

ReasonPrefix == <<"R","e","a","s","o","n",":"," ">>

CheckDocumentation == <<"C","h","e","c","k"," ","C","o","m","f","y","U","I"," ","d","o","c","u","m","e","n","t","a","t","i","o","n"," ","f","o","r"," ","a","l","t","e","r","n","a","t","i","v","e","s",".">>

UsageOf == <<"U","s","a","g","e"," ","o","f"," ","d","e","p","r","e","c","a","t","e","d"," ","C","o","m","f","y","U","I"," ","A","P","I"," ","\"">>

Detected == <<"\""," ","d","e","t","e","c","t","e","d","."," ">>

\* A template is a sequence of parts: literal text, or a {{key}} placeholder.
Lit(text) == [key |-> "", text |-> text]

Placeholder(k) == [key |-> k, text |-> <<>>]

\* meta.messages, by messageId.
messages ==
  [ deprecatedApi |->
      <<Lit(UsageOf), Placeholder("name"), Lit(Detected), Placeholder("reason")>>,
    deprecatedApiWithContext |->
      <<Lit(UsageOf), Placeholder("name"), Lit(Detected), Placeholder("reason"),
        Lit(<<" ","(","f","r","o","m"," ">>), Placeholder("file"), Lit(<<":">>),
        Placeholder("line"), Lit(<<")">>)>>,
    deprecatedApiGeneric |->
      <<Lit(UsageOf), Placeholder("name"), Lit(Detected), Lit(CheckDocumentation)>> ]

\* The host's rendering of a diagnostic: every placeholder of the template
\* replaced by the value of its key in the diagnostic's data.
interpolate(template, data) ==
  Concat([i \in 1..Len(template) |->
            IF template[i].key = "" THEN template[i].text ELSE data[template[i].key]])

\* ------------------------------------- regular expressions (extractor)
\* A pattern piece maps the set of positions a match may have reached to
\* the set it may reach after the piece, so that alternation, optional
\* groups and backtracking are all accounted for. A position is the index
\* of the next character to read.

\* A literal text.
After(s, P, lit) == {p + Len(lit) : p \in {q \in P : HasAt(s, q, lit)}}

\* \s*
AfterSpaces0(s, P) ==
  {q \in 1..(Len(s) + 1) : \E p \in P : p <= q /\ \A k \in p..(q - 1) : IsSpaceChar(s[k])}

\* \s+
AfterSpaces1(s, P) ==
  {q \in 1..(Len(s) + 1) : \E p \in P : p < q /\ \A k \in p..(q - 1) : IsSpaceChar(s[k])}

\* \w+
AfterWord1(s, P) ==
  {q \in 1..(Len(s) + 1) : \E p \in P : p < q /\ \A k \in p..(q - 1) : IsWordChar(s[k])}

\* [^)]*
AfterNotParen0(s, P) ==
  {q \in 1..(Len(s) + 1) : \E p \in P : p <= q /\ \A k \in p..(q - 1) : s[k] # ")"}

\* The end of the longest run of word characters that starts at p (p itself
\* when there is none): what a greedy (\w+) captures when the piece after it
\* cannot start with a word character.
WordEnd(s, p) ==
  CHOOSE q \in p..(Len(s) + 1) :
    /\ \A k \in p..(q - 1) : IsWordChar(s[k])
    /\ q = Len(s) + 1 \/ ~IsWordChar(s[q])

\* The end of the longest run of white space that starts at p.
SpaceEnd(s, p) ==
  CHOOSE q \in p..(Len(s) + 1) :
    /\ \A k \in p..(q - 1) : IsSpaceChar(s[k])
    /\ q = Len(s) + 1 \/ ~IsSpaceChar(s[q])

\* ---------------------------------------------------------------- extractor

kw_export == <<"e","x","p","o","r","t">>

kw_function == <<"f","u","n","c","t","i","o","n">>

kw_const == <<"c","o","n","s","t">>

kw_async == <<"a","s","y","n","c">>

kw_class == <<"c","l","a","s","s">>

kw_interface == <<"i","n","t","e","r","f","a","c","e">>

kw_type == <<"t","y","p","e">>

kw_let == <<"l","e","t">>

kw_var == <<"v","a","r">>

kw_import == <<"i","m","p","o","r","t">>

kw_from == <<"f","r","o","m">>

\* The kinds guessItemType returns.
type_function == <<"f","u","n","c","t","i","o","n">>

type_class == <<"c","l","a","s","s">>

type_constant == <<"c","o","n","s","t","a","n","t">>

type_type == <<"t","y","p","e">>

type_property == <<"p","r","o","p","e","r","t","y">>

type_import == <<"i","m","p","o","r","t">>

unknown == <<"u","n","k","n","o","w","n">>

\* ^(export\s+)? : the positions after the optional prefix.
AfterExport(s) == {1} \cup AfterSpaces1(s, After(s, {1}, kw_export))

\* guessItemType with the const/let/var test ahead of the function test.
guessItemType_ConstantFirst(context) ==
  LET E == AfterExport(context)
      arrow == After(context,
                 AfterSpaces0(context,
                   After(context,
                     AfterNotParen0(context,
                       After(context,
                         AfterSpaces0(context,
                           After(context,
                             AfterSpaces0(context,
                               AfterWord1(context,
                                 AfterSpaces1(context, After(context, E, kw_const)))),
                             <<"=">>)),
                         <<"(">>)),
                     <<")">>)),
                 <<"=",">">>)
      isFunction ==
        \/ After(context, E, kw_function) # {}
        \/ arrow # {}
        \/ After(context, AfterSpaces1(context, After(context, E, kw_async)), kw_function) # {}
      isClass ==
        AfterSpaces1(context, After(context, E, kw_class)
                                \cup After(context, E, kw_interface)
                                \cup After(context, E, kw_type)) # {}
      isConstant ==
        AfterSpaces1(context, After(context, E, kw_const)
                                \cup After(context, E, kw_let)
                                \cup After(context, E, kw_var)) # {}
      isType == AfterSpaces1(context, After(context, E, kw_type)) # {}
      isProperty ==
        AfterSpaces0(context,
          After(context, AfterSpaces0(context, AfterWord1(context, {1})), <<":">>)) # {}
      isImport == AfterSpaces1(context, After(context, {1}, kw_import)) # {}
  IN  IF isConstant THEN type_constant
      ELSE IF isFunction THEN type_function
      ELSE IF isClass THEN type_class
      ELSE IF isType THEN type_type
      ELSE IF isProperty THEN type_property
      ELSE IF isImport THEN type_import
      ELSE unknown

\* guessItemType: the ordered tests on the start of the context.
guessItemType(context) ==
  LET E == AfterExport(context)
      arrow == After(context,
                 AfterSpaces0(context,
                   After(context,
                     AfterNotParen0(context,
                       After(context,
                         AfterSpaces0(context,
                           After(context,
                             AfterSpaces0(context,
                               AfterWord1(context,
                                 AfterSpaces1(context, After(context, E, kw_const)))),
                             <<"=">>)),
                         <<"(">>)),
                     <<")">>)),
                 <<"=",">">>)
      isFunction ==
        \/ After(context, E, kw_function) # {}
        \/ arrow # {}
        \/ After(context, AfterSpaces1(context, After(context, E, kw_async)), kw_function) # {}
      isClass ==
        AfterSpaces1(context, After(context, E, kw_class)
                                \cup After(context, E, kw_interface)
                                \cup After(context, E, kw_type)) # {}
      isConstant ==
        AfterSpaces1(context, After(context, E, kw_const)
                                \cup After(context, E, kw_let)
                                \cup After(context, E, kw_var)) # {}
      isType == AfterSpaces1(context, After(context, E, kw_type)) # {}
      isProperty ==
        AfterSpaces0(context,
          After(context, AfterSpaces0(context, AfterWord1(context, {1})), <<":">>)) # {}
      isImport == AfterSpaces1(context, After(context, {1}, kw_import)) # {}
  IN  IF isFunction THEN type_function
      ELSE IF isClass THEN type_class
      ELSE IF isConstant THEN type_constant
      ELSE IF isType THEN type_type
      ELSE IF isProperty THEN type_property
      ELSE IF isImport THEN type_import
      ELSE unknown

\* String.prototype.substring: the characters of s at positions a..(b - 1).
SubText(s, a, b) == [i \in 1..(b - a) |-> s[a + i - 1]]

\* The result of String.prototype.match: no match, or the text of the one
\* capture group that took part in the match.
NoMatch == [found |-> FALSE, group |-> <<>>]

Matched(text) == [found |-> TRUE, group |-> text]

\* The leftmost position at which the predicate holds; 0 when there is none.
Leftmost(s, At(_)) ==
  LET hits == {i \in 1..Len(s) : At(i)}
  IN  IF hits = {} THEN 0 ELSE CHOOSE i \in hits : \A j \in hits : i <= j

\* keyword\s+(\w+) matches at position i.
KeywordNameAt(s, i, kw) ==
  /\ HasAt(s, i, kw)
  /\ SpaceEnd(s, i + Len(kw)) > i + Len(kw)
  /\ SpaceEnd(s, i + Len(kw)) <= Len(s)
  /\ IsWordChar(s[SpaceEnd(s, i + Len(kw))])

\* The (\w+) captured by keyword\s+(\w+) matching at position i.
KeywordName(s, i, kw) ==
  LET q == SpaceEnd(s, i + Len(kw)) IN SubText(s, q, WordEnd(s, q))

\* /(?:k1|k2|...)\s+(\w+)/ for the keywords kws, in their order.
MatchKeywordName(s, kws) ==
  LET At(i) == \E n \in 1..Len(kws) : KeywordNameAt(s, i, kws[n])
      i == Leftmost(s, At)
  IN  IF i = 0 THEN NoMatch
      ELSE LET n == CHOOSE n \in 1..Len(kws) :
                      /\ KeywordNameAt(s, i, kws[n])
                      /\ \A m \in 1..(n - 1) : ~KeywordNameAt(s, i, kws[m])
           IN  Matched(KeywordName(s, i, kws[n]))

\* const\s+(\w+)\s*= matches at position i.
ConstAssignAt(s, i) ==
  /\ KeywordNameAt(s, i, kw_const)
  /\ After(s, AfterSpaces0(s, {WordEnd(s, SpaceEnd(s, i + Len(kw_const)))}), <<"=">>) # {}

\* (\w+)\s*\([^)]*\)\s*{ matches at position i.
CallShapeAt(s, i) ==
  /\ IsWordChar(s[i])
  /\ After(s,
       AfterSpaces0(s,
         After(s,
           AfterNotParen0(s, After(s, AfterSpaces0(s, {WordEnd(s, i)}), <<"(">>)),
           <<")">>)),
       <<"{">>) # {}

\* /(?:function\s+(\w+)|const\s+(\w+)\s*=|(\w+)\s*\([^)]*\)\s*{)/
MatchFunctionName(s) ==
  LET At(i) == KeywordNameAt(s, i, kw_function) \/ ConstAssignAt(s, i) \/ CallShapeAt(s, i)
      i == Leftmost(s, At)
  IN  IF i = 0 THEN NoMatch
      ELSE IF KeywordNameAt(s, i, kw_function) THEN Matched(KeywordName(s, i, kw_function))
      ELSE IF ConstAssignAt(s, i) THEN Matched(KeywordName(s, i, kw_const))
      ELSE Matched(SubText(s, i, WordEnd(s, i)))

\* /(\w+)\s*:/
MatchPropertyName(s) ==
  LET At(i) == /\ IsWordChar(s[i])
               /\ After(s, AfterSpaces0(s, {WordEnd(s, i)}), <<":">>) # {}
      i == Leftmost(s, At)
  IN  IF i = 0 THEN NoMatch ELSE Matched(SubText(s, i, WordEnd(s, i)))

IsQuoteChar(c) == c \in {"'", "\""}

\* The end of the longest run of non-quote characters that starts at p.
NotQuoteEnd(s, p) ==
  CHOOSE q \in p..(Len(s) + 1) :
    /\ \A k \in p..(q - 1) : ~IsQuoteChar(s[k])
    /\ q = Len(s) + 1 \/ IsQuoteChar(s[q])

\* from\s+['"]([^'"]+)['"] matches at position f.
FromModuleAt(s, f) ==
  /\ HasAt(s, f, kw_from)
  /\ SpaceEnd(s, f + Len(kw_from)) > f + Len(kw_from)
  /\ SpaceEnd(s, f + Len(kw_from)) <= Len(s)
  /\ IsQuoteChar(s[SpaceEnd(s, f + Len(kw_from))])
  /\ NotQuoteEnd(s, SpaceEnd(s, f + Len(kw_from)) + 1) > SpaceEnd(s, f + Len(kw_from)) + 1
  /\ NotQuoteEnd(s, SpaceEnd(s, f + Len(kw_from)) + 1) <= Len(s)

\* import\s+.*?from matches from position i with "from" at position f.
ImportFromAt(s, i, f) ==
  /\ HasAt(s, i, kw_import)
  /\ SpaceEnd(s, i + Len(kw_import)) > i + Len(kw_import)
  /\ f >= SpaceEnd(s, i + Len(kw_import))
  /\ FromModuleAt(s, f)

\* /import\s+.*?from\s+['"]([^'"]+)['"]/ : the lazy .*? stops at the first
\* "from" after which the rest of the pattern matches.
MatchImportPath(s) ==
  LET At(i) == \E f \in 1..Len(s) : ImportFromAt(s, i, f)
      i == Leftmost(s, At)
  IN  IF i = 0 THEN NoMatch
      ELSE LET f == CHOOSE f \in 1..Len(s) :
                      /\ ImportFromAt(s, i, f)
                      /\ \A g \in 1..(f - 1) : ~ImportFromAt(s, i, g)
               q == SpaceEnd(s, f + Len(kw_from)) + 1
           IN  Matched(SubText(s, q, NotQuoteEnd(s, q)))

\* /(\w+)/ : the pattern used for a kind that has none of its own.
MatchFirstWord(s) ==
  LET At(i) == IsWordChar(s[i])
      i == Leftmost(s, At)
  IN  IF i = 0 THEN NoMatch ELSE Matched(SubText(s, i, WordEnd(s, i)))

\* extractIdentifierName with no pattern for a type the table does not
\* hold, so that such a type is named 'unknown' at once.
extractIdentifierName_NoGenericPattern(context, type) ==
  LET match ==
        IF type = type_function THEN MatchFunctionName(context)
        ELSE IF type = type_class
          THEN MatchKeywordName(context, <<kw_class, kw_interface, kw_type>>)
        ELSE IF type = type_constant
          THEN MatchKeywordName(context, <<kw_const, kw_let, kw_var>>)
        ELSE IF type = type_type THEN MatchKeywordName(context, <<kw_type>>)
        ELSE IF type = type_property THEN MatchPropertyName(context)
        ELSE IF type = type_import THEN MatchImportPath(context)
        ELSE NoMatch
  IN  IF match.found /\ match.group # <<>> THEN match.group ELSE unknown

\* extractIdentifierName without the 'unknown' defaults: the first capture
\* group as it is, and the empty string when the pattern does not match.
extractIdentifierName_NoDefault(context, type) ==
  LET match ==
        IF type = type_function THEN MatchFunctionName(context)
        ELSE IF type = type_class
          THEN MatchKeywordName(context, <<kw_class, kw_interface, kw_type>>)
        ELSE IF type = type_constant
          THEN MatchKeywordName(context, <<kw_const, kw_let, kw_var>>)
        ELSE IF type = type_type THEN MatchKeywordName(context, <<kw_type>>)
        ELSE IF type = type_property THEN MatchPropertyName(context)
        ELSE IF type = type_import THEN MatchImportPath(context)
        ELSE MatchFirstWord(context)
  IN  match.group

\* extractIdentifierName with /(\w+)/ tried as well when the pattern of the
\* type does not match.
extractIdentifierName_GenericLastResort(context, type) ==
  LET match ==
        IF type = type_function THEN MatchFunctionName(context)
        ELSE IF type = type_class
          THEN MatchKeywordName(context, <<kw_class, kw_interface, kw_type>>)
        ELSE IF type = type_constant
          THEN MatchKeywordName(context, <<kw_const, kw_let, kw_var>>)
        ELSE IF type = type_type THEN MatchKeywordName(context, <<kw_type>>)
        ELSE IF type = type_property THEN MatchPropertyName(context)
        ELSE IF type = type_import THEN MatchImportPath(context)
        ELSE MatchFirstWord(context)
      generic == MatchFirstWord(context)
  IN  IF match.found /\ match.group # <<>> THEN match.group
      ELSE IF generic.found THEN generic.group
      ELSE unknown

\* extractIdentifierName: context.match(patterns[type] || /(\w+)/), then the
\* first non-empty capture group, or 'unknown'.
extractIdentifierName(context, type) ==
  LET match ==
        IF type = type_function THEN MatchFunctionName(context)
        ELSE IF type = type_class
          THEN MatchKeywordName(context, <<kw_class, kw_interface, kw_type>>)
        ELSE IF type = type_constant
          THEN MatchKeywordName(context, <<kw_const, kw_let, kw_var>>)
        ELSE IF type = type_type THEN MatchKeywordName(context, <<kw_type>>)
        ELSE IF type = type_property THEN MatchPropertyName(context)
        ELSE IF type = type_import THEN MatchImportPath(context)
        ELSE MatchFirstWord(context)
  IN  IF match.found /\ match.group # <<>> THEN match.group ELSE unknown

\* The category names the constructor creates.
cat_functions == <<"f","u","n","c","t","i","o","n","s">>

cat_classes == <<"c","l","a","s","s","e","s">>

cat_properties == <<"p","r","o","p","e","r","t","i","e","s">>

cat_constants == <<"c","o","n","s","t","a","n","t","s">>

cat_types == <<"t","y","p","e","s">>

cat_imports == <<"i","m","p","o","r","t","s">>

\* FRONTEND_SOURCE_PATHS.
FRONTEND_SOURCE_PATHS ==
  << <<"/","C","o","m","f","y","U","I","_","f","r","o","n","t","e","n","d","-","c","l","o","n","e","-","2","0","/","s","r","c">>,
     <<"/","C","o","m","f","y","U","I","_","f","r","o","n","t","e","n","d","/","s","r","c">> >>

\* this.deprecatedApis after the constructor: an object is a sequence of
\* [category, items] entries in key-insertion order, the order in which
\* Object.entries and JSON.stringify enumerate it.
NewDeprecatedApis ==
  << [category |-> cat_functions, items |-> <<>>],
     [category |-> cat_classes, items |-> <<>>],
     [category |-> cat_properties, items |-> <<>>],
     [category |-> cat_constants, items |-> <<>>],
     [category |-> cat_types, items |-> <<>>],
     [category |-> cat_imports, items |-> <<>>] >>

\* The keys of an object.
Keys(apis) == {apis[i].category : i \in 1..Len(apis)}

\* The index of a key of an object.
IndexOf(apis, category) == CHOOSE i \in 1..Len(apis) : apis[i].category = category

\* The record categorizeDeprecatedItem files for an item.
RecordOf(item) ==
  [ name |-> extractIdentifierName(item.context, item.type),
    reason |-> item.reason,
    file |-> item.file,
    line |-> item.line,
    context |-> item.context ]

\* CategoryOf with the English plural of the kind.
CategoryOf_Plural(item) ==
  IF item.type = unknown THEN cat_functions
  ELSE IF item.type = type_class THEN cat_classes
  ELSE IF item.type = type_property THEN cat_properties
  ELSE item.type \o <<"s">>

\* CategoryOf with the plural of class spelled out: records of kind class go
\* to the classes category the constructor made.
CategoryOf_ClassesSpelled(item) ==
  IF item.type = unknown THEN cat_functions
  ELSE IF item.type = type_class THEN cat_classes
  ELSE item.type \o <<"s">>

\* The category categorizeDeprecatedItem files an item under.
CategoryOf(item) == IF item.type = unknown THEN cat_functions ELSE item.type \o <<"s">>

\* categorizeDeprecatedItem keeping one record per name in a category: a
\* record of a name the category holds already takes that record's place.
categorizeDeprecatedItem_OnePerName(apis, item) ==
  LET category == CategoryOf(item)
      withKey == IF category \in Keys(apis) THEN apis
                 ELSE Append(apis, [category |-> category, items |-> <<>>])
  IN  [withKey EXCEPT ![IndexOf(withKey, category)].items =
         Append(SelectSeq(@, LAMBDA r : r.name # RecordOf(item).name), RecordOf(item))]

\* categorizeDeprecatedItem: this.deprecatedApis after it.
categorizeDeprecatedItem(apis, item) ==
  LET category == CategoryOf(item)
      withKey == IF category \in Keys(apis) THEN apis
                 ELSE Append(apis, [category |-> category, items |-> <<>>])
  IN  [withKey EXCEPT ![IndexOf(withKey, category)].items = Append(@, RecordOf(item))]

\* getTotalCount: the sum of the categories' lengths.
RECURSIVE getTotalCount(_)
getTotalCount(apis) ==
  IF apis = <<>> THEN 0 ELSE Len(Head(apis).items) + getTotalCount(Tail(apis))

\* generateOutput.
generateOutput(apis, now) ==
  [ extractedAt |-> now,
    totalCount |-> getTotalCount(apis),
    sources |-> FRONTEND_SOURCE_PATHS,
    deprecatedApis |-> apis ]

\* An item as findDeprecatedItems builds it for an annotation at file:line
\* with the given reason and surrounding context.
Item(file, line, reason, context) ==
  [ file |-> file, line |-> line, reason |-> reason, context |-> context,
    type |-> guessItemType(context) ]

\* ------------------------------------------------- extractor: one file

\* String.prototype.startsWith.
startsWith(s, lit) == HasAt(s, 1, lit)

\* String.prototype.endsWith.
endsWith(s, lit) == HasAt(s, Len(s) - Len(lit) + 1, lit)

\* String.prototype.trim.
trim(s) ==
  IF \A k \in 1..Len(s) : IsSpaceChar(s[k]) THEN <<>>
  ELSE LET a == CHOOSE a \in 1..Len(s) :
                  ~IsSpaceChar(s[a]) /\ \A k \in 1..(a - 1) : IsSpaceChar(s[k])
           b == CHOOSE b \in 1..Len(s) :
                  ~IsSpaceChar(s[b]) /\ \A k \in (b + 1)..Len(s) : IsSpaceChar(s[k])
       IN  SubText(s, a, b + 1)

\* Array.prototype.join(' ').
RECURSIVE join(_)
join(parts) ==
  IF parts = <<>> THEN <<>>
  ELSE IF Len(parts) = 1 THEN Head(parts)
  ELSE Head(parts) \o <<" ">> \o join(Tail(parts))

marker == <<"@","d","e","p","r","e","c","a","t","e","d">>

\* The marker of the annotation patterns, which carry the i flag, at p.
MarkerAt(line, p) ==
  /\ p >= 1
  /\ p + Len(marker) - 1 <= Len(line)
  /\ \A k \in 1..Len(marker) : charToLowerCase(line[p + k - 1]) = marker[k]

\* Where a capture starts after the \s+ that follows a marker ending before
\* position q: after the run of white space, or, when that run reaches the
\* end of the line, on its last character, which the \s+ gives back.
CaptureStart(line, q) == IF SpaceEnd(line, q) <= Len(line) THEN SpaceEnd(line, q) ELSE Len(line)

\* @deprecated\s+(.+ can match with the marker at p: white space follows the
\* marker and at least one character is left for the capture.
MarkerTextAt(line, p) ==
  /\ MarkerAt(line, p)
  /\ p + Len(marker) + 1 <= Len(line)
  /\ IsSpaceChar(line[p + Len(marker)])

\* DEPRECATED_PATTERNS[0].exec(line), /@deprecated\s+(.+?)(?:\n|$|\*\/)/gi :
\* the lazy capture ends at the first "*/" or at the end of the line.
ExecBlockStyle(line) ==
  LET At(p) == MarkerTextAt(line, p)
      p == Leftmost(line, At)
  IN  IF p = 0 THEN NoMatch
      ELSE LET a == CaptureStart(line, p + Len(marker))
               b == CHOOSE e \in (a + 1)..(Len(line) + 1) :
                      /\ e = Len(line) + 1 \/ HasAt(line, e, <<"*","/">>)
                      /\ \A f \in (a + 1)..(e - 1) : ~HasAt(line, f, <<"*","/">>)
           IN  Matched(SubText(line, a, b))

\* DEPRECATED_PATTERNS[1].exec(line),
\* /\/\*\*[\s\S]*?@deprecated[\s\S]*?\*\//gi : the pattern has no capture
\* group, so match[1] is undefined.
ExecFullSpan(line) ==
  IF \E a \in 1..Len(line) :
       /\ HasAt(line, a, <<"/","*","*">>)
       /\ \E b \in (a + 3)..Len(line) :
            /\ MarkerAt(line, b)
            /\ \E c \in (b + Len(marker))..Len(line) : HasAt(line, c, <<"*","/">>)
  THEN Matched(<<>>)
  ELSE NoMatch

\* DEPRECATED_PATTERNS[2].exec(line), /\/\/\s*@deprecated\s+(.+)/gi : the
\* greedy capture runs to the end of the line.
ExecSingleLine(line) ==
  LET At(p) == /\ HasAt(line, p, <<"/","/">>)
               /\ MarkerTextAt(line, SpaceEnd(line, p + 2))
      p == Leftmost(line, At)
  IN  IF p = 0 THEN NoMatch
      ELSE LET a == CaptureStart(line, SpaceEnd(line, p + 2) + Len(marker))
           IN  Matched(SubText(line, a, Len(line) + 1))

\* pattern.exec(line) for the patterns of DEPRECATED_PATTERNS, in order; the
\* cursor of each is reset to 0 before the call.
DEPRECATED_PATTERNS(line) == <<ExecBlockStyle(line), ExecFullSpan(line), ExecSingleLine(line)>>

\* match[1]?.trim() || 'No reason provided'
deprecationReason(match) ==
  IF trim(match.group) # <<>> THEN trim(match.group) ELSE NoReasonProvided

\* The line of the window is kept for the context: it is not the annotation
\* line, and its trimmed text is not empty and starts with neither "//" nor "*".
KeptForContext(lines, deprecatedLineIndex, i) ==
  /\ i # deprecatedLineIndex
  /\ trim(lines[i + 1]) # <<>>
  /\ ~startsWith(trim(lines[i + 1]), <<"/","/">>)
  /\ ~startsWith(trim(lines[i + 1]), <<"*">>)

\* The trimmed kept lines of the indices start..(end - 1), in order.
RECURSIVE contextLines(_, _, _, _)
contextLines(lines, deprecatedLineIndex, start, end) ==
  IF start >= end THEN <<>>
  ELSE (IF KeptForContext(lines, deprecatedLineIndex, start)
        THEN <<trim(lines[start + 1])>> ELSE <<>>)
       \o contextLines(lines, deprecatedLineIndex, start + 1, end)

Max(a, b) == IF a >= b THEN a ELSE b

Min(a, b) == IF a <= b THEN a ELSE b

\* getContextualInfo with a window that reaches three lines after the
\* annotation line.
getContextualInfo_ThreeAfter(lines, deprecatedLineIndex) ==
  LET start == Max(0, deprecatedLineIndex - 2)
      end == Min(Len(lines), deprecatedLineIndex + 4)
  IN  join(contextLines(lines, deprecatedLineIndex, start, end))

\* getContextualInfo; indices count from 0 as in the source, lines[k + 1]
\* being the line of index k.
getContextualInfo(lines, deprecatedLineIndex) ==
  LET start == Max(0, deprecatedLineIndex - 2)
      end == Min(Len(lines), deprecatedLineIndex + 3)
  IN  join(contextLines(lines, deprecatedLineIndex, start, end))

\* Where the match of DEPRECATED_PATTERNS[n] on the text ends, as the
\* lastIndex exec leaves: behind the "*/" or at the end of the text for the
\* block style, behind the first "*/" after the marker for the full span,
\* at the end of the text for the single line.
MatchEnd(n, text) ==
  IF n = 1
  THEN LET p == CHOOSE p \in 1..Len(text) :
                  MarkerTextAt(text, p) /\ \A q \in 1..(p - 1) : ~MarkerTextAt(text, q)
           a == CaptureStart(text, p + Len(marker))
           ends == {e \in (a + 1)..Len(text) : HasAt(text, e, <<"*","/">>)}
       IN  IF ends = {} THEN Len(text)
           ELSE (CHOOSE e \in ends : \A f \in ends : e <= f) + 1
  ELSE IF n = 2
  THEN LET a == CHOOSE a \in 1..Len(text) :
                  /\ HasAt(text, a, <<"/","*","*">>)
                  /\ \A q \in 1..(a - 1) : ~HasAt(text, q, <<"/","*","*">>)
           b == CHOOSE b \in (a + 3)..Len(text) :
                  MarkerAt(text, b) /\ \A q \in (a + 3)..(b - 1) : ~MarkerAt(text, q)
           c == CHOOSE c \in (b + Len(marker))..Len(text) :
                  /\ HasAt(text, c, <<"*","/">>)
                  /\ \A q \in (b + Len(marker))..(c - 1) : ~HasAt(text, q, <<"*","/">>)
       IN  c + 1
  ELSE Len(text)

\* DEPRECATED_PATTERNS[n].exec(line) with the pattern's lastIndex at from:
\* the patterns carry the g flag, so the search starts there, and exec
\* leaves lastIndex at the end of the match, or at 0 when there is none.
exec(n, line, from) ==
  IF from > Len(line) THEN [match |-> NoMatch, lastIndex |-> 0]
  ELSE LET rest == IF from = 0 THEN line ELSE SubText(line, from + 1, Len(line) + 1)
           match == IF n = 1 THEN ExecBlockStyle(rest)
                    ELSE IF n = 2 THEN ExecFullSpan(rest)
                    ELSE ExecSingleLine(rest)
       IN  IF match.found
           THEN [match |-> match, lastIndex |-> from + MatchEnd(n, rest)]
           ELSE [match |-> NoMatch, lastIndex |-> 0]

\* ResetLastIndex left out: every exec goes on from where the exec of the
\* same pattern before it ended.
ResetLastIndex_Kept(cursor) == cursor

\* pattern.lastIndex = 0, the statement before every exec.
ResetLastIndex(cursor) == 0

\* The exec calls of findDeprecatedItems on one line, one for every
\* pattern, each pattern with the lastIndex it was left with.
ExecAll(line, cursors) ==
  [n \in 1..Len(cursors) |-> exec(n, line, ResetLastIndex(cursors[n]))]

\* ItemsOfLine with the loop over the patterns left at the first match: one
\* item for a line, however many patterns match it.
ItemsOfLine_FirstMatchOnly(lines, filePath, i, execs) ==
  LET item(n) == IF execs[n].match.found
                 THEN << Item(filePath, i + 1, deprecationReason(execs[n].match),
                              getContextualInfo(lines, i)) >>
                 ELSE <<>>
  IN  IF item(1) # <<>> THEN item(1) ELSE IF item(2) # <<>> THEN item(2) ELSE item(3)

\* The items findDeprecatedItems pushes for the line of index i, given what
\* the exec calls on the line returned: one for every pattern that matched.
ItemsOfLine(lines, filePath, i, execs) ==
  LET item(n) == IF execs[n].match.found
                 THEN << Item(filePath, i + 1, deprecationReason(execs[n].match),
                              getContextualInfo(lines, i)) >>
                 ELSE <<>>
  IN  item(1) \o item(2) \o item(3)

\* The loop of findDeprecatedItems from the line of index i on: the items
\* pushed, and the lastIndex every pattern is left with.
RECURSIVE ScanLines(_, _, _, _)
ScanLines(lines, filePath, i, cursors) ==
  IF i >= Len(lines) THEN [items |-> <<>>, cursors |-> cursors]
  ELSE LET execs == ExecAll(lines[i + 1], cursors)
           rest == ScanLines(lines, filePath, i + 1,
                             [n \in 1..Len(cursors) |-> execs[n].lastIndex])
       IN  [ items |-> ItemsOfLine(lines, filePath, i, execs) \o rest.items,
             cursors |-> rest.cursors ]

\* findDeprecatedItems, the content given as its lines (content.split('\n'));
\* the patterns are the module's, left as the scans before left them.
findDeprecatedItems(lines, filePath) == ScanLines(lines, filePath, 0, lastIndex).items

\* The loop of scanFile over the items: categorizeDeprecatedItem on each.
RECURSIVE categorizeAll(_, _)
categorizeAll(apis, items) ==
  IF items = <<>> THEN apis
  ELSE categorizeAll(categorizeDeprecatedItem(apis, Head(items)), Tail(items))

\* ------------------------------------------------- extractor: one run

\* FILE_PATTERNS, each '**/*<ext>' given as the suffix it asks for.
FILE_PATTERNS == << <<".","t","s">>, <<".","v","u","e">>, <<".","j","s">> >>

\* The ignore option of glob.sync: '**/node_modules/**', '**/dist/**' and
\* '**/*.d.ts'.
GlobIgnores(filePath) ==
  \/ includes(filePath, <<"/","n","o","d","e","_","m","o","d","u","l","e","s","/">>)
  \/ includes(filePath, <<"/","d","i","s","t","/">>)
  \/ endsWith(filePath, <<".","d",".","t","s">>)

\* path.join(dirPath, name)
pathJoin(dirPath, name) == dirPath \o <<"/">> \o name

\* glob.sync(path.join(dirPath, pattern), {ignore}): the paths of the files
\* of the directory that end as the pattern asks and are not ignored, in the
\* order glob walks the directory.
GlobSync(dir, dirPath, pattern) ==
  SelectSeq([k \in 1..Len(dir.files) |-> pathJoin(dirPath, dir.files[k].path)],
            LAMBDA filePath : endsWith(filePath, pattern) /\ ~GlobIgnores(filePath))

\* The scanFile calls of scanDirectory(dirPath), in order: for every
\* pattern of FILE_PATTERNS, every file glob.sync returns.
scanDirectory(dir, dirPath) ==
  Concat([n \in 1..Len(FILE_PATTERNS) |-> GlobSync(dir, dirPath, FILE_PATTERNS[n])])

\* getRelativePath: the path below the first source path the file path
\* starts with, or the file path itself.
getRelativePath(filePath) ==
  IF \E n \in 1..Len(FRONTEND_SOURCE_PATHS) : startsWith(filePath, FRONTEND_SOURCE_PATHS[n])
  THEN LET n == CHOOSE n \in 1..Len(FRONTEND_SOURCE_PATHS) :
                  /\ startsWith(filePath, FRONTEND_SOURCE_PATHS[n])
                  /\ \A k \in 1..(n - 1) : ~startsWith(filePath, FRONTEND_SOURCE_PATHS[k])
       IN  SubText(filePath, Len(FRONTEND_SOURCE_PATHS[n]) + 2, Len(filePath) + 1)
  ELSE filePath

\* What the try block of scanFile gets from findDeprecatedItems for the
\* file at filePath, and the lastIndex the patterns are left with: the
\* items of the file's content, or no item, and the patterns as they were,
\* when fs.readFileSync throws and the catch block takes over.
scanFileResult(filePath, file) ==
  IF file.readable
  THEN ScanLines(file.lines, getRelativePath(filePath), 0, lastIndex)
  ELSE [items |-> <<>>, cursors |-> lastIndex]

\* The items scanFile categorizes for the file at filePath.
scanFileItems(filePath, file) == scanFileResult(filePath, file).items

\* scanFile: this.deprecatedApis after it.
scanFile(apis, filePath, file) == categorizeAll(apis, scanFileItems(filePath, file))

\* ------------------------------------------------------------------ inputs

\* The most items one extraction categorizes.
MaxScans == 2

id_serialise == <<"s","e","r","i","a","l","i","s","e">>

id_Serialise == <<"S","e","r","i","a","l","i","s","e">>

id_onExecuted == <<"o","n","E","x","e","c","u","t","e","d">>

id_ONEXECUTED == <<"O","N","E","X","E","C","U","T","E","D">>

id_onNodeExecuted == <<"o","n","N","o","d","e","E","x","e","c","u","t","e","d">>

id_onExecuted5 == <<"o","n","E","x","e","c","u","t","e","d","5">>

id_Set == <<"S","e","t">>

id_set == <<"s","e","t">>

id_recreate == <<"r","e","c","r","e","a","t","e">>

id_alias == <<"a","l","i","a","s">>

file_clipboard == <<"u","t","i","l","s","/","v","i","n","t","a","g","e","C","l","i","p","b","o","a","r","d",".","t","s">>

file_litegraph == <<"l","i","t","e","g","r","a","p","h",".","t","s">>

reason_json == <<"U","s","e"," ","J","S","O","N",".","s","t","r","i","n","g","i","f","y"," ","i","n","s","t","e","a","d">>

reason_old == <<"O","l","d">>

\* The annotated constructs of the scanned source trees: each an annotation
\* hit with the context around it.
Items ==
  { \* export function serialise(nodes) {
    Item(file_clipboard, 12, reason_json,
         <<"e","x","p","o","r","t"," ","f","u","n","c","t","i","o","n"," ","s","e","r","i","a","l","i","s","e","(","n","o","d","e","s",")"," ","{">>),
    \* function serialise() {
    Item(file_litegraph, 50, reason_old,
         <<"f","u","n","c","t","i","o","n"," ","s","e","r","i","a","l","i","s","e","(",")"," ","{">>),
    \* const serialise = 1
    Item(file_litegraph, 30, NoReasonProvided,
         <<"c","o","n","s","t"," ","s","e","r","i","a","l","i","s","e"," ","="," ","1">>),
    \* onExecuted: null,
    Item(file_litegraph, 7, NoReasonProvided,
         <<"o","n","E","x","e","c","u","t","e","d",":"," ","n","u","l","l",",">>),
    \* export class Set {
    Item(file_litegraph, 41, reason_old,
         <<"e","x","p","o","r","t"," ","c","l","a","s","s"," ","S","e","t"," ","{">>) }

\* A registry file that was not written by this extractor run: the record
\* of the documented scenario, which names no source file.
ShippedRegistry ==
  [ extractedAt |-> "shipped",
    totalCount |-> 2,
    sources |-> FRONTEND_SOURCE_PATHS,
    deprecatedApis |->
      << [category |-> cat_functions,
          items |-> << [name |-> id_serialise, reason |-> reason_json, file |-> <<>>,
                        line |-> 0, context |-> <<>>],
                       [name |-> id_recreate, reason |-> NoReasonProvided, file |-> <<>>,
                        line |-> 0, context |-> <<>>] >>] >> ]

\* The source files of the scanned trees: path below the root, whether
\* fs.readFileSync can read it, and the lines of its content.
SourceFile(path, readable, lines) == [path |-> path, readable |-> readable, lines |-> lines]

\*    * @deprecated y
\*   import { a } from 'lib/api'
src_api ==
  SourceFile(<<"a","p","i",".","t","s">>, TRUE,
    << <<" ","*"," ","@","d","e","p","r","e","c","a","t","e","d"," ","y">>,
       <<"i","m","p","o","r","t"," ","{"," ","a"," ","}"," ","f","r","o","m"," ","'","l","i","b","/","a","p","i","'">> >>)

\*    * @deprecated x
\*   import './style.css'
src_app ==
  SourceFile(<<"a","p","p",".","v","u","e">>, TRUE,
    << <<" ","*"," ","@","d","e","p","r","e","c","a","t","e","d"," ","x">>,
       <<"i","m","p","o","r","t"," ","'",".","/","s","t","y","l","e",".","c","s","s","'">> >>)

\*   // @deprecated q
\*   class Broken {
src_broken ==
  SourceFile(<<"b","r","o","k","e","n",".","t","s">>, FALSE,
    << <<"/","/"," ","@","d","e","p","r","e","c","a","t","e","d"," ","q">>,
       <<"c","l","a","s","s"," ","B","r","o","k","e","n"," ","{">> >>)

\*   // @deprecated Use JSON
\*   export function serialise(n) {
\*     return n
\*   }
src_clipboard ==
  SourceFile(<<"u","t","i","l","s","/","c","l","i","p","b","o","a","r","d",".","t","s">>, TRUE,
    << <<"/","/"," ","@","d","e","p","r","e","c","a","t","e","d"," ","U","s","e"," ","J","S","O","N">>,
       <<"e","x","p","o","r","t"," ","f","u","n","c","t","i","o","n"," ","s","e","r","i","a","l","i","s","e","(","n",")"," ","{">>,
       <<" "," ","r","e","t","u","r","n"," ","n">>,
       <<"}">> >>)

\*   // @deprecated   
\*   const f = (a) => a
src_util ==
  SourceFile(<<"u","t","i","l",".","j","s">>, TRUE,
    << <<"/","/"," ","@","d","e","p","r","e","c","a","t","e","d"," "," "," ">>,
       <<"c","o","n","s","t"," ","f"," ","="," ","(","a",")"," ","=",">"," ","a">> >>)

\*   })
\*    * @deprecated w
src_end ==
  SourceFile(<<"e","n","d",".","t","s">>, TRUE,
    << <<"}",")">>,
       <<" ","*"," ","@","d","e","p","r","e","c","a","t","e","d"," ","w">> >>)

\*   /**
\*    * @deprecated Old
\*    */
\*   export class Graph {
src_graph ==
  SourceFile(<<"g","r","a","p","h",".","t","s">>, TRUE,
    << <<"/","*","*">>,
       <<" ","*"," ","@","d","e","p","r","e","c","a","t","e","d"," ","O","l","d">>,
       <<" ","*","/">>,
       <<"e","x","p","o","r","t"," ","c","l","a","s","s"," ","G","r","a","p","h"," ","{">> >>)

\*    * @Deprecated v
\*   functionName: string
src_iface ==
  SourceFile(<<"i","f","a","c","e",".","t","s">>, TRUE,
    << <<" ","*"," ","@","D","e","p","r","e","c","a","t","e","d"," ","v">>,
       <<"f","u","n","c","t","i","o","n","N","a","m","e",":"," ","s","t","r","i","n","g">> >>)

\*   /** @deprecated */
\*   onExecuted: null,
\*   (empty line)
\*    * @deprecated
src_node ==
  SourceFile(<<"n","o","d","e",".","t","s">>, TRUE,
    << <<"/","*","*"," ","@","d","e","p","r","e","c","a","t","e","d"," ","*","/">>,
       <<"o","n","E","x","e","c","u","t","e","d",":"," ","n","u","l","l",",">>,
       <<>>,
       <<" ","*"," ","@","d","e","p","r","e","c","a","t","e","d">> >>)

\*    * @deprecated d
\*   var x
src_dts ==
  SourceFile(<<"t","y","p","e","s",".","d",".","t","s">>, TRUE,
    << <<" ","*"," ","@","d","e","p","r","e","c","a","t","e","d"," ","d">>,
       <<"v","a","r"," ","x">> >>)

\*    * Alias
\*    * @deprecated Use T2
\*    */
\*   type Alias = string
src_types ==
  SourceFile(<<"t","y","p","e","s",".","t","s">>, TRUE,
    << <<" ","*"," ","A","l","i","a","s">>,
       <<" ","*"," ","@","d","e","p","r","e","c","a","t","e","d"," ","U","s","e"," ","T","2">>,
       <<" ","*","/">>,
       <<"t","y","p","e"," ","A","l","i","a","s"," ","="," ","s","t","r","i","n","g">> >>)

\*   let count = 0
\*    * @deprecated s
src_count ==
  SourceFile(<<"c","o","u","n","t",".","t","s">>, TRUE,
    << <<"l","e","t"," ","c","o","u","n","t"," ","="," ","0">>,
       <<" ","*"," ","@","d","e","p","r","e","c","a","t","e","d"," ","s">> >>)

\*    * @deprecated u
\*   async function load() {
src_load ==
  SourceFile(<<"l","o","a","d",".","t","s">>, TRUE,
    << <<" ","*"," ","@","d","e","p","r","e","c","a","t","e","d"," ","u">>,
       <<"a","s","y","n","c"," ","f","u","n","c","t","i","o","n"," ","l","o","a","d","(",")"," ","{">> >>)

\*    * @deprecated t
\*   export interface Opts {
src_opts ==
  SourceFile(<<"o","p","t","s",".","t","s">>, TRUE,
    << <<" ","*"," ","@","d","e","p","r","e","c","a","t","e","d"," ","t">>,
       <<"e","x","p","o","r","t"," ","i","n","t","e","r","f","a","c","e"," ","O","p","t","s"," ","{">> >>)

\*   export const state = 1
\*    * @deprecated z
src_state ==
  SourceFile(<<"s","t","a","t","e",".","t","s">>, TRUE,
    << <<"e","x","p","o","r","t"," ","c","o","n","s","t"," ","s","t","a","t","e"," ","="," ","1">>,
       <<" ","*"," ","@","d","e","p","r","e","c","a","t","e","d"," ","z">> >>)

\* A source root: whether fs.existsSync finds it, and its files in the
\* order glob walks them.
dir_missing == [exists |-> FALSE, files |-> <<>>]

dir_empty == [exists |-> TRUE, files |-> <<>>]

dir_frontend ==
  [exists |-> TRUE, files |-> <<src_api, src_app, src_broken, src_clipboard, src_count, src_util>>]

dir_litegraph ==
  [exists |-> TRUE, files |-> <<src_end, src_graph, src_iface, src_node, src_dts, src_types>>]

dir_mixed ==
  [exists |-> TRUE, files |-> <<src_clipboard, src_count, src_load, src_opts, src_state>>]

dir_broken == [exists |-> TRUE, files |-> <<src_broken>>]

Directories ==
  [ missing |-> dir_missing, empty |-> dir_empty, frontend |-> dir_frontend,
    litegraph |-> dir_litegraph, mixed |-> dir_mixed, broken |-> dir_broken ]

\* What the file system holds at the paths of FRONTEND_SOURCE_PATHS: a
\* directory, by its name in Directories, for each.
Disks == {<<a, b>> : a \in DOMAIN Directories, b \in DOMAIN Directories}

\* The options object of a rule entry; any of its three keys may be absent.
UserOptions ==
  { \* { showContext: true }
    [showContext |-> TRUE],
    [severity |-> "error", ignorePatterns |-> <<>>, showContext |-> FALSE],
    [severity |-> "off", ignorePatterns |-> <<>>, showContext |-> TRUE],
    \* ignorePatterns: ['serialise', 'onExecuted']
    [severity |-> "warn", ignorePatterns |-> << id_serialise, id_onExecuted >>,
     showContext |-> TRUE],
    \* ignorePatterns: ['*serialise', '^on.*d$']
    [severity |-> "error",
     ignorePatterns |-> << <<"*","s","e","r","i","a","l","i","s","e">>,
                           <<"^","o","n",".","*","d","$">> >>,
     showContext |-> FALSE],
    \* ignorePatterns: ['^se.*e$']
    [severity |-> "off", ignorePatterns |-> << <<"^","s","e",".","*","e","$">> >>,
     showContext |-> FALSE] }

\* The level of the rule entry ('error' or 'warn'), which the host gives to
\* every diagnostic of the rule.
RuleLevels == {"error", "warn"}

\* ------------------------------------------------------- syntax trees

Identifier(name, loc) == [type |-> "Identifier", name |-> name, loc |-> loc]

\* A node of a type the rule never inspects further (a literal, a pattern,
\* a qualified name, a function expression), or an absent child (null).
OtherNode(type) == [type |-> type]

Null == OtherNode("null")

MemberNode(property) == [type |-> "MemberExpression", property |-> property]

\* One node of every shape the rule's handlers tell apart, around the
\* identifier text n; loc numbers the identifier nodes of the file.
Shapes(n, loc) ==
  << [type |-> "CallExpression", callee |-> Identifier(n, loc + 1)],
     [type |-> "CallExpression", callee |-> MemberNode(Identifier(n, loc + 2))],
     [type |-> "CallExpression", callee |-> MemberNode(OtherNode("Literal"))],
     [type |-> "CallExpression", callee |-> OtherNode("FunctionExpression")],
     MemberNode(Identifier(n, loc + 3)),
     [type |-> "VariableDeclarator", id |-> Identifier(n, loc + 4)],
     [type |-> "VariableDeclarator", id |-> OtherNode("ObjectPattern")],
     [type |-> "FunctionDeclaration", id |-> Identifier(n, loc + 5)],
     [type |-> "FunctionDeclaration", id |-> Null],
     [type |-> "ClassDeclaration", id |-> Identifier(n, loc + 6)],
     [type |-> "ClassDeclaration", id |-> Null],
     [type |-> "MethodDefinition", key |-> Identifier(n, loc + 7)],
     [type |-> "MethodDefinition", key |-> OtherNode("Literal")],
     [type |-> "ImportSpecifier", imported |-> Identifier(n, loc + 8),
      local |-> Identifier(id_alias, loc + 9)],
     [type |-> "ImportSpecifier", imported |-> Identifier(id_alias, loc + 10),
      local |-> Identifier(n, loc + 11)],
     [type |-> "ImportDefaultSpecifier", local |-> Identifier(n, loc + 12)],
     [type |-> "ImportNamespaceSpecifier", local |-> Identifier(n, loc + 13)],
     [type |-> "NewExpression", callee |-> Identifier(n, loc + 14)],
     [type |-> "NewExpression", callee |-> MemberNode(Identifier(n, loc + 15))],
     [type |-> "TSTypeReference", typeName |-> Identifier(n, loc + 16)],
     [type |-> "TSTypeReference", typeName |-> OtherNode("TSQualifiedName")],
     \* a bare reference, for which the rule registers no handler
     Identifier(n, loc + 17) >>

\* The files under review, each the sequence of its top-level nodes.
Files ==
  { Shapes(id_serialise, 0),
    Shapes(id_Set, 0),
    \* import { serialise } ...; serialise(); class { onExecuted() {} recreate() {} }
    << [type |-> "ImportSpecifier", imported |-> Identifier(id_serialise, 1),
        local |-> Identifier(id_serialise, 2)],
       [type |-> "CallExpression", callee |-> Identifier(id_serialise, 3)],
       [type |-> "MethodDefinition", key |-> Identifier(id_onExecuted, 4)],
       [type |-> "MethodDefinition", key |-> Identifier(id_recreate, 5)] >>,
    \* other spellings, near misses, and a call through an object
    << [type |-> "CallExpression", callee |-> Identifier(id_Serialise, 1)],
       [type |-> "MethodDefinition", key |-> Identifier(id_onNodeExecuted, 2)],
       [type |-> "CallExpression", callee |-> Identifier(id_onExecuted5, 3)],
       MemberNode(Identifier(id_ONEXECUTED, 4)),
       [type |-> "NewExpression", callee |-> Identifier(id_set, 5)],
       [type |-> "CallExpression", callee |-> MemberNode(Identifier(id_onExecuted, 6))],
       [type |-> "CallExpression", callee |-> Identifier(id_serialise, 7)] >> }

\* The children of a node that the host's traversal visits after it and
\* for which a handler may run: the callee of a call or of an instantiation
\* when it is a member access.
Children(node) ==
  IF node.type \in {"CallExpression", "NewExpression"} /\ node.callee.type = "MemberExpression"
  THEN <<node.callee>>
  ELSE <<>>

\* The state of the extractor script beyond its categories.
scanVars ==
  << disk, runs, rootIdx, pending, log, found, output, previous, later, lastIndex >>

\* The state of the rule module and of the host's traversal.
ruleVars == << deprecatedLookup, ruleLevel, options, todo, visited, lookedUp, diags >>

\* The files the host holds beside the one it is traversing.
lintVars == << first, paused >>

vars ==
  << pc, deprecatedApis, scanned, registry, deprecatedLookup, ruleLevel, options,
     todo, visited, lookedUp, diags, scanVars, lintVars >>

\* No file held.
NoSession == <<>>

NoRegistry ==
  [extractedAt |-> "none", totalCount |-> 0, sources |-> <<>>, deprecatedApis |-> <<>>]

\* defaultOptions, also the defaults of create's destructuring.
defaultOptions == [severity |-> "warn", ignorePatterns |-> <<>>, showContext |-> TRUE]

Init ==
  /\ pc = "extract"
  /\ deprecatedApis = NewDeprecatedApis
  /\ scanned = <<>>
  /\ registry = NoRegistry
  /\ deprecatedLookup = <<>>
  /\ ruleLevel = "warn"
  /\ options = defaultOptions
  /\ todo = <<>>
  /\ visited = <<>>
  /\ lookedUp = <<>>
  /\ diags = <<>>
  /\ disk = <<>>
  /\ runs = 0
  /\ rootIdx = 0
  /\ pending = <<>>
  /\ log = <<>>
  /\ found = <<>>
  /\ output = NoRegistry
  /\ previous = NoRegistry
  /\ later = 0
  /\ lastIndex = <<0, 0, 0>>
  /\ first = NoSession
  /\ paused = NoSession

\* ------------------------------------------------------ extractor actions

\* scanFile's loop body for one item: categorizeDeprecatedItem(item).
Categorize(item) ==
  /\ pc = "extract"
  /\ Len(scanned) < MaxScans
  /\ deprecatedApis' = categorizeDeprecatedItem(deprecatedApis, item)
  /\ scanned' = Append(scanned, RecordOf(item))
  /\ UNCHANGED << pc, registry, deprecatedLookup, ruleLevel, options, todo, visited,
                  lookedUp, diags, scanVars, lintVars >>

\* main: generateOutput and the write of the registry file.
WriteRegistry ==
  /\ pc = "extract"
  /\ registry' = generateOutput(deprecatedApis, "extracted")
  /\ pc' = "written"
  /\ UNCHANGED << deprecatedApis, scanned, deprecatedLookup, ruleLevel, options, todo,
                  visited, lookedUp, diags, scanVars, lintVars >>

\* The package is used with the registry file it ships.
UseShippedRegistry ==
  /\ pc = "extract"
  /\ scanned = <<>>
  /\ registry' = ShippedRegistry
  /\ pc' = "written"
  /\ UNCHANGED << deprecatedApis, scanned, deprecatedLookup, ruleLevel, options, todo,
                  visited, lookedUp, diags, scanVars, lintVars >>

\* ------------------------------------------------------------ rule module

\* All records of the registry, each with its category, in the order
\* Object.entries(...).forEach / items.forEach visits them.
RECURSIVE Entries(_)
Entries(apis) ==
  IF apis = <<>> THEN <<>>
  ELSE [i \in 1..Len(Head(apis).items) |->
          [ name |-> Head(apis).items[i].name,
            reason |-> Head(apis).items[i].reason,
            file |-> Head(apis).items[i].file,
            line |-> Head(apis).items[i].line,
            context |-> Head(apis).items[i].context,
            category |-> Head(apis).category ]]
       \o Entries(Tail(apis))

\* Populate with the array of a key set anew at every record: a later
\* record of the same key takes the place of the earlier ones.
Populate_Overwrite(lookup, item) ==
  LET key == toLowerCase(item.name)
  IN  [k \in DOMAIN lookup \cup {key} |-> IF k = key THEN <<item>> ELSE lookup[k]]

\* Populate with unshift in place of push: the newest record comes first.
Populate_Unshift(lookup, item) ==
  LET key == toLowerCase(item.name)
  IN  IF key \in DOMAIN lookup
      THEN [lookup EXCEPT ![key] = <<item>> \o @]
      ELSE [k \in DOMAIN lookup \cup {key} |-> IF k = key THEN <<item>> ELSE lookup[k]]

\* The body of the populate loop for one record: push under the key
\* item.name.toLowerCase(), creating the array first when the key is new.
Populate(lookup, item) ==
  LET key == toLowerCase(item.name)
  IN  IF key \in DOMAIN lookup
      THEN [lookup EXCEPT ![key] = Append(@, item)]
      ELSE [k \in DOMAIN lookup \cup {key} |-> IF k = key THEN <<item>> ELSE lookup[k]]

\* The populate loop over the records.
RECURSIVE PopulateAll(_, _)
PopulateAll(lookup, items) ==
  IF items = <<>> THEN lookup
  ELSE PopulateAll(Populate(lookup, Head(items)), Tail(items))

\* The rule module's top-level code: the lookup map of the registry file.
LoadModule ==
  /\ pc = "written"
  /\ deprecatedLookup' = PopulateAll(<<>>, Entries(registry.deprecatedApis))
  /\ pc' = "loaded"
  /\ UNCHANGED << deprecatedApis, scanned, registry, ruleLevel, options, todo, visited,
                  lookedUp, diags, scanVars, lintVars >>

\* An option of the rule entry, or its default.
Option(o, k) == IF k \in DOMAIN o THEN o[k] ELSE defaultOptions[k]

\* create(context, [options]) for the file the host is about to traverse.
create(o, level, file) ==
  /\ pc = "loaded"
  /\ todo = <<>>
  /\ visited = <<>>
  /\ options' = [ severity |-> Option(o, "severity"),
                  ignorePatterns |-> Option(o, "ignorePatterns"),
                  showContext |-> Option(o, "showContext") ]
  /\ ruleLevel' = level
  /\ todo' = file
  /\ visited' = <<>>
  /\ lookedUp' = <<>>
  /\ diags' = <<>>
  /\ UNCHANGED << pc, deprecatedApis, scanned, registry, deprecatedLookup, scanVars, lintVars >>

\* isIgnored with a pattern that does not compile counting as a match of
\* every name.
isIgnored_MalformedMatchesAll(name) ==
  \E i \in 1..Len(options.ignorePatterns) :
    LET pattern == options.ignorePatterns[i]
    IN  IF RegExpCompiles(pattern) THEN RegExpTest(pattern, name) ELSE TRUE

\* isIgnored with every in place of some.
isIgnored_Every(name) ==
  \A i \in 1..Len(options.ignorePatterns) :
    LET pattern == options.ignorePatterns[i]
    IN  IF RegExpCompiles(pattern) THEN RegExpTest(pattern, name) ELSE pattern = name

\* isIgnored with the patterns tested against the lowercased name, each
\* pattern lowercased as well.
isIgnored_LowerCased(name) ==
  \E i \in 1..Len(options.ignorePatterns) :
    LET pattern == toLowerCase(options.ignorePatterns[i])
    IN  IF RegExpCompiles(pattern) THEN RegExpTest(pattern, toLowerCase(name))
        ELSE pattern = toLowerCase(name)

\* isIgnored: some pattern, compiled, tests true on the name; a pattern that
\* does not compile is compared to the name instead.
isIgnored(name) ==
  \E i \in 1..Len(options.ignorePatterns) :
    LET pattern == options.ignorePatterns[i]
    IN  IF RegExpCompiles(pattern) THEN RegExpTest(pattern, name) ELSE pattern = name

\* The reason text reportDeprecated passes as data.
ReasonText(deprecatedInfo) ==
  IF deprecatedInfo.reason # NoReasonProvided
  THEN ReasonPrefix \o deprecatedInfo.reason
  ELSE CheckDocumentation

\* MessageId with the reason tested before showContext.
MessageId_ReasonFirst(deprecatedInfo) ==
  IF deprecatedInfo.reason # NoReasonProvided THEN "deprecatedApi"
  ELSE IF options.showContext /\ deprecatedInfo.file # <<>> THEN "deprecatedApiWithContext"
  ELSE "deprecatedApiGeneric"

\* The messageId reportDeprecated selects.
MessageId(deprecatedInfo) ==
  IF options.showContext /\ deprecatedInfo.file # <<>> THEN "deprecatedApiWithContext"
  ELSE IF deprecatedInfo.reason # NoReasonProvided THEN "deprecatedApi"
  ELSE "deprecatedApiGeneric"

\* context.report: the diagnostic the host records, at the level of the
\* rule entry.
Report(node, messageId, data) ==
  [node |-> node.loc, messageId |-> messageId, data |-> data, severity |-> ruleLevel]

\* reportDeprecated with the record's name, not the identifier's text, as
\* the name of the message.
reportDeprecated_RecordName(node, name, deprecatedInfo) ==
  IF isIgnored(name) THEN <<>>
  ELSE << Report(node, MessageId(deprecatedInfo),
                 [ name |-> deprecatedInfo.name,
                   reason |-> ReasonText(deprecatedInfo),
                   file |-> deprecatedInfo.file,
                   line |-> NumToString(deprecatedInfo.line) ]) >>

\* reportDeprecated: the diagnostics it adds.
reportDeprecated(node, name, deprecatedInfo) ==
  IF isIgnored(name) THEN <<>>
  ELSE << Report(node, MessageId(deprecatedInfo),
                 [ name |-> name,
                   reason |-> ReasonText(deprecatedInfo),
                   file |-> deprecatedInfo.file,
                   line |-> NumToString(deprecatedInfo.line) ]) >>

builtIns ==
  { <<"S","e","t">>, <<"M","a","p">>, <<"A","r","r","a","y">>, <<"O","b","j","e","c","t">>,
    <<"P","r","o","m","i","s","e">>, <<"F","u","n","c","t","i","o","n">>,
    <<"S","t","r","i","n","g">>, <<"N","u","m","b","e","r">>,
    <<"B","o","o","l","e","a","n">> }

\* The outcome of a handler that checks nothing.
Nothing == [got |-> <<>>, reported |-> <<>>]

\* checkIdentifier without toLowerCase on the looked-up name.
checkIdentifier_CaseSensitive(node, name) ==
  IF name \in builtIns THEN Nothing
  ELSE [ got |-> <<name>>,
         reported |->
           IF name \in DOMAIN deprecatedLookup /\ Len(deprecatedLookup[name]) > 0
           THEN reportDeprecated(node, name, deprecatedLookup[name][1])
           ELSE <<>> ]

\* checkIdentifier without the built-in exclusion.
checkIdentifier_NoBuiltIns(node, name) ==
  LET key == toLowerCase(name)
  IN  [ got |-> <<key>>,
        reported |->
          IF key \in DOMAIN deprecatedLookup /\ Len(deprecatedLookup[key]) > 0
          THEN reportDeprecated(node, name, deprecatedLookup[key][1])
          ELSE <<>> ]

\* checkIdentifier matching any key the lowercased name starts with.
checkIdentifier_StartsWith(node, name) ==
  IF name \in builtIns THEN Nothing
  ELSE LET key == toLowerCase(name)
           hits == {k \in DOMAIN deprecatedLookup : HasAt(key, 1, k)}
       IN  [ got |-> <<key>>,
             reported |->
               IF hits # {}
               THEN reportDeprecated(node, name, deprecatedLookup[CHOOSE k \in hits : TRUE][1])
               ELSE <<>> ]

\* checkIdentifier: the keys it looks up and the diagnostics it adds.
checkIdentifier(node, name) ==
  IF name \in builtIns THEN Nothing
  ELSE LET key == toLowerCase(name)
       IN  [ got |-> <<key>>,
             reported |->
               IF key \in DOMAIN deprecatedLookup /\ Len(deprecatedLookup[key]) > 0
               THEN reportDeprecated(node, name, deprecatedLookup[key][1])
               ELSE <<>> ]

\* Visit with a name reported once in a process: the key of a record that
\* has been reported is taken out of the index.
Visit_ReportsOncePerProcess(type, outcome) ==
  /\ pc = "loaded"
  /\ todo # <<>>
  /\ Head(todo).type = type
  /\ diags' = diags \o outcome.reported
  /\ lookedUp' = lookedUp \o outcome.got
  /\ visited' = Append(visited, Head(todo))
  /\ todo' = Children(Head(todo)) \o Tail(todo)
  /\ deprecatedLookup' =
       IF outcome.reported = <<>> THEN deprecatedLookup
       ELSE [k \in DOMAIN deprecatedLookup \ Range(outcome.got) |-> deprecatedLookup[k]]
  /\ UNCHANGED << pc, deprecatedApis, scanned, registry, ruleLevel, options, scanVars, lintVars >>

\* The host visits the next node: the handler's outcome is recorded and the
\* node's children are next.
Visit(type, outcome) ==
  /\ pc = "loaded"
  /\ todo # <<>>
  /\ Head(todo).type = type
  /\ diags' = diags \o outcome.reported
  /\ lookedUp' = lookedUp \o outcome.got
  /\ visited' = Append(visited, Head(todo))
  /\ todo' = Children(Head(todo)) \o Tail(todo)
  /\ UNCHANGED << pc, deprecatedApis, scanned, registry, deprecatedLookup, ruleLevel,
                  options, scanVars, lintVars >>

CallExpression ==
  /\ todo # <<>>
  /\ Head(todo).type = "CallExpression"
  /\ LET node == Head(todo)
     IN  Visit("CallExpression",
           IF node.callee.type = "Identifier"
           THEN checkIdentifier(node.callee, node.callee.name)
           ELSE IF node.callee.type = "MemberExpression"
                   /\ node.callee.property.type = "Identifier"
           THEN checkIdentifier(node.callee.property, node.callee.property.name)
           ELSE Nothing)

MemberExpression ==
  /\ todo # <<>>
  /\ Head(todo).type = "MemberExpression"
  /\ LET node == Head(todo)
     IN  Visit("MemberExpression",
           IF node.property.type = "Identifier"
           THEN checkIdentifier(node.property, node.property.name)
           ELSE Nothing)

VariableDeclarator ==
  /\ todo # <<>>
  /\ Head(todo).type = "VariableDeclarator"
  /\ LET node == Head(todo)
     IN  Visit("VariableDeclarator",
           IF node.id.type = "Identifier"
           THEN checkIdentifier(node.id, node.id.name)
           ELSE Nothing)

FunctionDeclaration ==
  /\ todo # <<>>
  /\ Head(todo).type = "FunctionDeclaration"
  /\ LET node == Head(todo)
     IN  Visit("FunctionDeclaration",
           IF node.id # Null THEN checkIdentifier(node.id, node.id.name) ELSE Nothing)

ClassDeclaration ==
  /\ todo # <<>>
  /\ Head(todo).type = "ClassDeclaration"
  /\ LET node == Head(todo)
     IN  Visit("ClassDeclaration",
           IF node.id # Null THEN checkIdentifier(node.id, node.id.name) ELSE Nothing)

MethodDefinition ==
  /\ todo # <<>>
  /\ Head(todo).type = "MethodDefinition"
  /\ LET node == Head(todo)
     IN  Visit("MethodDefinition",
           IF node.key.type = "Identifier"
           THEN checkIdentifier(node.key, node.key.name)
           ELSE Nothing)

\* The ImportSpecifier handler checking the local binding, as the handlers
\* of the default and namespace imports do.
ImportSpecifier_Local ==
  /\ todo # <<>>
  /\ Head(todo).type = "ImportSpecifier"
  /\ LET node == Head(todo)
     IN  Visit("ImportSpecifier", checkIdentifier(node.local, node.local.name))

ImportSpecifier ==
  /\ todo # <<>>
  /\ Head(todo).type = "ImportSpecifier"
  /\ LET node == Head(todo)
     IN  Visit("ImportSpecifier", checkIdentifier(node.imported, node.imported.name))

ImportDefaultSpecifier ==
  /\ todo # <<>>
  /\ Head(todo).type = "ImportDefaultSpecifier"
  /\ LET node == Head(todo)
     IN  Visit("ImportDefaultSpecifier", checkIdentifier(node.local, node.local.name))

ImportNamespaceSpecifier ==
  /\ todo # <<>>
  /\ Head(todo).type = "ImportNamespaceSpecifier"
  /\ LET node == Head(todo)
     IN  Visit("ImportNamespaceSpecifier", checkIdentifier(node.local, node.local.name))

NewExpression ==
  /\ todo # <<>>
  /\ Head(todo).type = "NewExpression"
  /\ LET node == Head(todo)
     IN  Visit("NewExpression",
           IF node.callee.type = "Identifier"
           THEN checkIdentifier(node.callee, node.callee.name)
           ELSE Nothing)

TSTypeReference ==
  /\ todo # <<>>
  /\ Head(todo).type = "TSTypeReference"
  /\ LET node == Head(todo)
     IN  Visit("TSTypeReference",
           IF node.typeName.type = "Identifier"
           THEN checkIdentifier(node.typeName, node.typeName.name)
           ELSE Nothing)

\* The node types the rule registers a handler for.
HandledTypes ==
  { "CallExpression", "MemberExpression", "VariableDeclarator", "FunctionDeclaration",
    "ClassDeclaration", "MethodDefinition", "ImportSpecifier", "ImportDefaultSpecifier",
    "ImportNamespaceSpecifier", "NewExpression", "TSTypeReference" }

\* The host visits a node of a type without a handler.
Unhandled ==
  /\ todo # <<>>
  /\ Head(todo).type \notin HandledTypes
  /\ Visit(Head(todo).type, Nothing)

Next ==
  \/ \E item \in Items : Categorize(item)
  \/ WriteRegistry
  \/ UseShippedRegistry
  \/ LoadModule
  \/ \E o \in UserOptions, level \in RuleLevels, file \in Files : create(o, level, file)
  \/ CallExpression
  \/ MemberExpression
  \/ VariableDeclarator
  \/ FunctionDeclaration
  \/ ClassDeclaration
  \/ MethodDefinition
  \/ ImportSpecifier
  \/ ImportDefaultSpecifier
  \/ ImportNamespaceSpecifier
  \/ NewExpression
  \/ TSTypeReference
  \/ Unhandled

Spec == Init /\ [][Next]_vars

\* ---------------------------------------------------- the extractor's run
\* The extractor script step by step over a file system: main starts a
\* fresh extractor, extract walks the source paths, scanDirectory and
\* scanFile walk the files, main writes the registry file, and the rule
\* module loads it.

\* The most runs of main in one behaviour.
MaxRuns == 2

\* The most calls the extractor object gets after main has written the file.
MaxLaterCalls == 1

\* new Date().toISOString(): the time of the run, told apart by its number.
Now == NumToString(runs)

ExtractInit ==
  /\ pc = "scanning"
  /\ deprecatedApis = NewDeprecatedApis
  /\ scanned = <<>>
  /\ registry = NoRegistry
  /\ deprecatedLookup = <<>>
  /\ ruleLevel = "warn"
  /\ options = defaultOptions
  /\ todo = <<>>
  /\ visited = <<>>
  /\ lookedUp = <<>>
  /\ diags = <<>>
  /\ disk \in Disks
  /\ runs = 1
  /\ rootIdx = 1
  /\ pending = <<>>
  /\ log = <<>>
  /\ found = <<>>
  /\ output = NoRegistry
  /\ previous = NoRegistry
  /\ later = 0
  /\ lastIndex = <<0, 0, 0>>
  /\ first = NoSession
  /\ paused = NoSession

\* The directory at the n-th source path.
DirectoryAt(n) == Directories[disk[n]]

\* The file fs.readFileSync(filePath) is asked for.
FileAt(filePath) ==
  LET n == CHOOSE n \in 1..Len(disk) :
             \E k \in 1..Len(DirectoryAt(n).files) :
               pathJoin(FRONTEND_SOURCE_PATHS[n], DirectoryAt(n).files[k].path) = filePath
      k == CHOOSE k \in 1..Len(DirectoryAt(n).files) :
             pathJoin(FRONTEND_SOURCE_PATHS[n], DirectoryAt(n).files[k].path) = filePath
  IN  DirectoryAt(n).files[k]

\* One turn of extract's loop over FRONTEND_SOURCE_PATHS: scanDirectory for
\* a path that exists, a warning for one that does not.
extract ==
  /\ pc = "scanning"
  /\ pending = <<>>
  /\ rootIdx <= Len(FRONTEND_SOURCE_PATHS)
  /\ IF DirectoryAt(rootIdx).exists
     THEN /\ pending' = scanDirectory(DirectoryAt(rootIdx), FRONTEND_SOURCE_PATHS[rootIdx])
          /\ log' = log
     ELSE /\ pending' = <<>>
          /\ log' = Append(log, [level |-> "warn", path |-> FRONTEND_SOURCE_PATHS[rootIdx]])
  /\ rootIdx' = rootIdx + 1
  /\ UNCHANGED << pc, deprecatedApis, scanned, registry, ruleVars, lintVars, disk, runs, found,
                  output, previous, later, lastIndex >>

\* The records categorizeDeprecatedItem files for the items, in order.
RecordsOf(items) == [k \in 1..Len(items) |-> RecordOf(items[k])]

\* The items, each with the path of the file it was found in.
FoundIn(filePath, items) == [k \in 1..Len(items) |-> [path |-> filePath, item |-> items[k]]]

\* What console.error has printed after scanFile(filePath).
scanFileLog(filePath) ==
  IF FileAt(filePath).readable THEN log ELSE Append(log, [level |-> "error", path |-> filePath])

\* ScanNextFile with a failure of fs.readFileSync leaving scanDirectory's
\* loop: the files still to come of that directory are not scanned.
ScanNextFile_FailureEndsLoop ==
  /\ pc = "scanning"
  /\ pending # <<>>
  /\ LET result == scanFileResult(Head(pending), FileAt(Head(pending)))
     IN  /\ deprecatedApis' = categorizeAll(deprecatedApis, result.items)
         /\ scanned' = scanned \o RecordsOf(result.items)
         /\ found' = found \o FoundIn(Head(pending), result.items)
         /\ lastIndex' = result.cursors
  /\ log' = scanFileLog(Head(pending))
  /\ pending' = IF FileAt(Head(pending)).readable THEN Tail(pending) ELSE <<>>
  /\ UNCHANGED << pc, registry, ruleVars, lintVars, disk, runs, rootIdx, output, previous, later >>

\* scanDirectory's next call of scanFile.
ScanNextFile ==
  /\ pc = "scanning"
  /\ pending # <<>>
  /\ LET result == scanFileResult(Head(pending), FileAt(Head(pending)))
     IN  /\ deprecatedApis' = categorizeAll(deprecatedApis, result.items)
         /\ scanned' = scanned \o RecordsOf(result.items)
         /\ found' = found \o FoundIn(Head(pending), result.items)
         /\ lastIndex' = result.cursors
  /\ log' = scanFileLog(Head(pending))
  /\ pending' = Tail(pending)
  /\ UNCHANGED << pc, registry, ruleVars, lintVars, disk, runs, rootIdx, output, previous, later >>

\* main after extract has returned: generateOutput, and the registry file
\* written from it with JSON.stringify.
main ==
  /\ pc = "scanning"
  /\ pending = <<>>
  /\ rootIdx > Len(FRONTEND_SOURCE_PATHS)
  /\ output' = generateOutput(deprecatedApis, Now)
  /\ registry' = output'
  /\ pc' = "written"
  /\ UNCHANGED << deprecatedApis, scanned, ruleVars, lintVars, disk, runs, rootIdx, pending, log,
                  found, previous, later, lastIndex >>

\* The files glob.sync finds below the source paths that exist.
FilesOnDisk ==
  UNION { Range(scanDirectory(DirectoryAt(n), FRONTEND_SOURCE_PATHS[n])) :
            n \in {k \in 1..Len(disk) : DirectoryAt(k).exists} }

\* A further scanFile on the extractor whose output main has written. The
\* object generateOutput returned holds this.deprecatedApis itself, not a
\* copy, so what the call files shows in the object as well; the registry
\* file is text on disk and stays as written.
LaterScanFile(filePath) ==
  /\ pc \in {"written", "loaded"}
  /\ later < MaxLaterCalls
  /\ LET result == scanFileResult(filePath, FileAt(filePath))
     IN  /\ deprecatedApis' = categorizeAll(deprecatedApis, result.items)
         /\ scanned' = scanned \o RecordsOf(result.items)
         /\ found' = found \o FoundIn(filePath, result.items)
         /\ lastIndex' = result.cursors
  /\ output' = [output EXCEPT !.deprecatedApis = deprecatedApis']
  /\ log' = scanFileLog(filePath)
  /\ later' = later + 1
  /\ UNCHANGED << pc, registry, ruleVars, lintVars, disk, runs, rootIdx, pending, previous >>

\* RunAgain with main going on with the extractor of the run before in
\* place of a new one.
RunAgain_SameExtractor ==
  /\ pc \in {"written", "loaded"}
  /\ runs < MaxRuns
  /\ previous' = registry
  /\ runs' = runs + 1
  /\ log' = <<>>
  /\ output' = NoRegistry
  /\ rootIdx' = 1
  /\ pending' = <<>>
  /\ later' = 0
  /\ lastIndex' = <<0, 0, 0>>
  /\ pc' = "scanning"
  /\ UNCHANGED << deprecatedApis, scanned, found, registry, ruleVars, lintVars, disk >>

\* main is started again over the same file system: a new extractor, and
\* the registry file of the run before still in place.
RunAgain ==
  /\ pc \in {"written", "loaded"}
  /\ runs < MaxRuns
  /\ previous' = registry
  /\ runs' = runs + 1
  /\ deprecatedApis' = NewDeprecatedApis
  /\ scanned' = <<>>
  /\ found' = <<>>
  /\ log' = <<>>
  /\ output' = NoRegistry
  /\ rootIdx' = 1
  /\ pending' = <<>>
  /\ later' = 0
  /\ lastIndex' = <<0, 0, 0>>
  /\ pc' = "scanning"
  /\ UNCHANGED << registry, ruleVars, lintVars, disk >>

ExtractNext ==
  \/ extract
  \/ ScanNextFile
  \/ main
  \/ LoadModule
  \/ pc \in {"written", "loaded"} /\ \E filePath \in FilesOnDisk : LaterScanFile(filePath)
  \/ RunAgain

ExtractSpec == ExtractInit /\ [][ExtractNext]_vars

\* ------------------------------------------------- the host lints many files
\* One process of the host lints several files with the rule module loaded
\* once. Every create() call has its own options and its own handlers, so a
\* file whose traversal waits keeps them; only deprecatedLookup and the
\* registry data belong to the module and are shared by all the files.

\* The file the host is traversing, with what its create() call holds and
\* what the host has collected for it.
CurrentSession ==
  [ options |-> options, ruleLevel |-> ruleLevel, todo |-> todo, visited |-> visited,
    lookedUp |-> lookedUp, diags |-> diags ]

\* create() has been called for a file that the host is traversing or has
\* just finished.
InSession == todo # <<>> \/ visited # <<>>

\* The host takes up the session s, or none.
TakeUp(s) ==
  /\ options' = IF s = NoSession THEN defaultOptions ELSE s.options
  /\ ruleLevel' = IF s = NoSession THEN "warn" ELSE s.ruleLevel
  /\ todo' = IF s = NoSession THEN <<>> ELSE s.todo
  /\ visited' = IF s = NoSession THEN <<>> ELSE s.visited
  /\ lookedUp' = IF s = NoSession THEN <<>> ELSE s.lookedUp
  /\ diags' = IF s = NoSession THEN <<>> ELSE s.diags

\* The options and files of the rule entries the host lints under here.
LintOptions ==
  { [showContext |-> TRUE],
    [severity |-> "error",
     ignorePatterns |-> << <<"*","s","e","r","i","a","l","i","s","e">>,
                           <<"^","o","n",".","*","d","$">> >>,
     showContext |-> FALSE] }

LintFiles ==
  { Shapes(id_serialise, 0),
    << [type |-> "ImportSpecifier", imported |-> Identifier(id_serialise, 1),
        local |-> Identifier(id_serialise, 2)],
       [type |-> "CallExpression", callee |-> Identifier(id_serialise, 3)],
       [type |-> "MethodDefinition", key |-> Identifier(id_onExecuted, 4)],
       [type |-> "MethodDefinition", key |-> Identifier(id_recreate, 5)] >> }

\* The registry file is in place and no file has been linted.
LintInit ==
  /\ pc = "written"
  /\ deprecatedApis = NewDeprecatedApis
  /\ scanned = <<>>
  /\ registry = ShippedRegistry
  /\ deprecatedLookup = <<>>
  /\ ruleLevel = "warn"
  /\ options = defaultOptions
  /\ todo = <<>>
  /\ visited = <<>>
  /\ lookedUp = <<>>
  /\ diags = <<>>
  /\ disk = <<>>
  /\ runs = 0
  /\ rootIdx = 0
  /\ pending = <<>>
  /\ log = <<>>
  /\ found = <<>>
  /\ output = NoRegistry
  /\ previous = NoRegistry
  /\ later = 0
  /\ lastIndex = <<0, 0, 0>>
  /\ first = NoSession
  /\ paused = NoSession

\* The host is done with the first file it linted and keeps the result.
KeepFirst ==
  /\ pc = "loaded"
  /\ InSession /\ todo = <<>>
  /\ first = NoSession
  /\ first' = CurrentSession
  /\ TakeUp(NoSession)
  /\ UNCHANGED << pc, deprecatedApis, scanned, registry, deprecatedLookup, scanVars, paused >>

\* The host is done with a later file and hands its diagnostics on.
Finish ==
  /\ pc = "loaded"
  /\ InSession /\ todo = <<>>
  /\ first # NoSession
  /\ TakeUp(NoSession)
  /\ UNCHANGED << pc, deprecatedApis, scanned, registry, deprecatedLookup, scanVars, lintVars >>

\* The host leaves the traversal of a file waiting and goes on with the one
\* that waited, or is free to start the next.
SwitchFile ==
  /\ pc = "loaded"
  /\ InSession \/ paused # NoSession
  /\ paused' = IF InSession THEN CurrentSession ELSE NoSession
  /\ TakeUp(paused)
  /\ UNCHANGED << pc, deprecatedApis, scanned, registry, deprecatedLookup, scanVars, first >>

LintNext ==
  \/ LoadModule
  \/ \E o \in LintOptions, file \in LintFiles : create(o, "error", file)
  \/ CallExpression
  \/ MemberExpression
  \/ VariableDeclarator
  \/ FunctionDeclaration
  \/ ClassDeclaration
  \/ MethodDefinition
  \/ ImportSpecifier
  \/ ImportDefaultSpecifier
  \/ ImportNamespaceSpecifier
  \/ NewExpression
  \/ TSTypeReference
  \/ Unhandled
  \/ KeepFirst
  \/ Finish
  \/ SwitchFile

LintSpec == LintInit /\ [][LintNext]_vars

\* ------------------------------------------------- vocabulary of the claims

\* The records of the registry file, in the order of its categories.
RegistryRecords == Entries(registry.deprecatedApis)

\* The name is a registry hit: some record's lowercased name equals its
\* lowercased text.
Deprecated(name) ==
  LET key == toLowerCase(name)
  IN  \E c \in 1..Len(registry.deprecatedApis) :
        \E i \in 1..Len(registry.deprecatedApis[c].items) :
          toLowerCase(registry.deprecatedApis[c].items[i].name) = key

\* Some entry of ignorePatterns, read as a regular expression, matches
\* somewhere in the name.
IgnoredByPattern(name) ==
  \E i \in 1..Len(options.ignorePatterns) :
    /\ RegExpCompiles(options.ignorePatterns[i])
    /\ RegExpTest(options.ignorePatterns[i], name)

\* The identifier a node of a handled shape presents for checking, as a
\* sequence of at most one identifier node.
Checked(node) ==
  IF node.type = "CallExpression"
  THEN IF node.callee.type = "Identifier" THEN <<node.callee>>
       ELSE IF node.callee.type = "MemberExpression" /\ node.callee.property.type = "Identifier"
       THEN <<node.callee.property>>
       ELSE <<>>
  ELSE IF node.type = "MemberExpression"
  THEN IF node.property.type = "Identifier" THEN <<node.property>> ELSE <<>>
  ELSE IF node.type = "VariableDeclarator"
  THEN IF node.id.type = "Identifier" THEN <<node.id>> ELSE <<>>
  ELSE IF node.type \in {"FunctionDeclaration", "ClassDeclaration"}
  THEN IF node.id.type = "Identifier" THEN <<node.id>> ELSE <<>>
  ELSE IF node.type = "MethodDefinition"
  THEN IF node.key.type = "Identifier" THEN <<node.key>> ELSE <<>>
  ELSE IF node.type = "ImportSpecifier" THEN <<node.imported>>
  ELSE IF node.type \in {"ImportDefaultSpecifier", "ImportNamespaceSpecifier"}
  THEN <<node.local>>
  ELSE IF node.type = "NewExpression"
  THEN IF node.callee.type = "Identifier" THEN <<node.callee>> ELSE <<>>
  ELSE IF node.type = "TSTypeReference"
  THEN IF node.typeName.type = "Identifier" THEN <<node.typeName>> ELSE <<>>
  ELSE <<>>

\* The identifier occurrences of the file that the traversal has presented
\* so far.
Occurrences == UNION {Range(Checked(visited[i])) : i \in 1..Len(visited)}

\* How many times the traversal has presented the identifier node at loc.
ChecksAt(loc) ==
  Cardinality({i \in 1..Len(visited) : \E id \in Range(Checked(visited[i])) : id.loc = loc})

\* How many diagnostics the host holds for the identifier node at loc.
DiagsAt(loc) == Cardinality({i \in 1..Len(diags) : diags[i].node = loc})

\* The occurrence is a registry hit that neither the built-in exclusion nor
\* an ignore pattern covers.
Reportable(name) == Deprecated(name) /\ name \notin builtIns /\ ~IgnoredByPattern(name)

\* The rendered message of a diagnostic.
Message(d) == interpolate(messages[d.messageId], d.data)

\* The diagnostic shows the reason, file and line of the record.
Shows(d, record) ==
  /\ d.data.file = record.file
  /\ d.data.line = NumToString(record.line)
  /\ d.data.reason = IF record.reason # NoReasonProvided
                     THEN ReasonPrefix \o record.reason
                     ELSE CheckDocumentation

\* ------------------------------------------------------------------ claims

\* C1: with the rule option severity = "off" no diagnostic is emitted,
\* whatever the registry and the other options are.
C1_SeverityOffEmitsNothing == options.severity = "off" => diags = <<>>

\* C2: every diagnostic of an invocation carries the configured severity:
\* warning level with severity "warn", error level with severity "error".
C2_SeverityPassthrough ==
  options.severity \in {"warn", "error"} =>
    \A i \in 1..Len(diags) : diags[i].severity = options.severity

\* C3: every occurrence that is a non-ignored, non-built-in registry hit has
\* exactly one diagnostic at its node, for every handled shape, and a file
\* with n such occurrences ends with n diagnostics.
C3_OneDiagnosticPerOccurrence ==
  /\ \A occ \in Occurrences : Reportable(occ.name) => DiagsAt(occ.loc) = 1
  /\ todo = <<>> =>
       Len(diags) = Cardinality({occ \in Occurrences : Reportable(occ.name)})

\* C4 as stated: every use of an identifier whose lowercased text is a
\* registry key, in any casing and with no ignore pattern applying, has
\* exactly one diagnostic.
C4_AnyCasingExactlyOne ==
  \A occ \in Occurrences :
    (Deprecated(occ.name) /\ ~IgnoredByPattern(occ.name)) => DiagsAt(occ.loc) = 1

\* C4 amended: when the identifier as written is not a built-in name, a use
\* in any casing is reported once each time a handler presents it, hence at
\* least once.
C4_AnyCasingReported ==
  \A occ \in Occurrences :
    ( /\ toLowerCase(occ.name) \in {toLowerCase(r.name) : r \in Range(RegistryRecords)}
      /\ ~IgnoredByPattern(occ.name)
      /\ occ.name \notin builtIns )
    => (DiagsAt(occ.loc) >= 1 /\ DiagsAt(occ.loc) = ChecksAt(occ.loc))

\* A use written in another casing than the record's name has been reported.
C4_Witness ==
  \E occ \in Occurrences :
    /\ DiagsAt(occ.loc) >= 1
    /\ \A i \in 1..Len(RegistryRecords) : RegistryRecords[i].name # occ.name
    /\ \E i \in 1..Len(RegistryRecords) :
         toLowerCase(RegistryRecords[i].name) = toLowerCase(occ.name)

C6_BuiltInsExcluded ==
  /\ \A i \in 1..Len(diags) : diags[i].data.name \notin builtIns
  /\ \A occ \in Occurrences : occ.name \in builtIns => DiagsAt(occ.loc) = 0
  /\ Len(lookedUp) =
       Cardinality({i \in 1..Len(visited) :
                      \E id \in Range(Checked(visited[i])) : id.name \notin builtIns})

\* The whole file of Set occurrences was traversed under a registry that
\* holds a record named Set.
C6_Witness ==
  /\ todo = <<>>
  /\ Len(visited) > 1
  /\ \A occ \in Occurrences : occ.name = id_Set \/ occ.name = id_alias
  /\ \E i \in 1..Len(RegistryRecords) : RegistryRecords[i].name = id_Set

\* C7: a diagnostic is emitted only for an identifier whose lowercased
\* text equals the lowercased name of a registry record.
C7_ExactMatchOnly ==
  \A i \in 1..Len(diags) :
    \E j \in 1..Len(RegistryRecords) :
      toLowerCase(RegistryRecords[j].name) = toLowerCase(diags[i].data.name)

\* onNodeExecuted and onExecuted5 were presented under a registry holding
\* onExecuted and have no diagnostic.
C7_Witness ==
  /\ \E j \in 1..Len(RegistryRecords) : RegistryRecords[j].name = id_onExecuted
  /\ \E a, b \in Occurrences :
       /\ a.name = id_onNodeExecuted /\ DiagsAt(a.loc) = 0
       /\ b.name = id_onExecuted5 /\ DiagsAt(b.loc) = 0

\* C8: the rendered message of every diagnostic contains the identifier as
\* written at the occurrence and the word "deprecated".
C8_MessageNamesIdentifier ==
  \A i \in 1..Len(diags) :
    /\ includes(Message(diags[i]), <<"d","e","p","r","e","c","a","t","e","d">>)
    /\ \E occ \in Occurrences :
         occ.loc = diags[i].node /\ includes(Message(diags[i]), occ.name)

\* A diagnostic exists for an identifier written in another casing than its
\* record, and the file's diagnostics use two templates.
C8_Witness ==
  /\ \E i \in 1..Len(diags) : \E j \in 1..Len(RegistryRecords) :
       /\ toLowerCase(RegistryRecords[j].name) = toLowerCase(diags[i].data.name)
       /\ RegistryRecords[j].name # diags[i].data.name
  /\ \E i, k \in 1..Len(diags) : diags[i].messageId # diags[k].messageId

\* The template the priority order selects for a record.
TemplateFor(record) ==
  IF options.showContext /\ record.file # <<>> THEN "deprecatedApiWithContext"
  ELSE IF record.reason # NoReasonProvided THEN "deprecatedApi"
  ELSE "deprecatedApiGeneric"

\* C9: every diagnostic uses the one template the priority order selects
\* for the record it shows: context-bearing, else reason-bearing, else
\* generic.
C9_TemplatePriority ==
  \A i \in 1..Len(diags) :
    /\ diags[i].messageId \in DOMAIN messages
    /\ \E j \in 1..Len(RegistryRecords) :
         /\ toLowerCase(RegistryRecords[j].name) = toLowerCase(diags[i].data.name)
         /\ Shows(diags[i], RegistryRecords[j])
         /\ diags[i].messageId = TemplateFor(RegistryRecords[j])

\* With showContext enabled, a record without a source file but with a
\* reason was reported by the reason-bearing template, and one without
\* either by the generic template.
C9_Witness ==
  /\ options.showContext
  /\ \E i, k \in 1..Len(diags) :
       /\ diags[i].messageId = "deprecatedApi"
       /\ diags[k].messageId = "deprecatedApiGeneric"

\* The first record, in the given order, with the lowercased name.
FirstNamed(records, name) ==
  records[CHOOSE i \in 1..Len(records) :
            /\ toLowerCase(records[i].name) = toLowerCase(name)
            /\ \A j \in 1..(i - 1) : toLowerCase(records[j].name) # toLowerCase(name)]

\* C10 as stated: the record a diagnostic shows is the earliest scanned of
\* the records that share the lowercased name, across categories.
C10_EarliestScannedWins ==
  registry.extractedAt = "extracted" =>
    \A i \in 1..Len(diags) : Shows(diags[i], FirstNamed(scanned, diags[i].data.name))

\* C10 amended: the record shown is the first with that lowercased name in
\* the registry's own order, category after category in the order of its
\* keys, and each category holds its records in the order they were scanned.
C10_FirstInRegistryOrderWins ==
  /\ \A i \in 1..Len(diags) :
       Shows(diags[i], FirstNamed(RegistryRecords, diags[i].data.name))
  /\ registry.extractedAt = "extracted" =>
       \A c \in 1..Len(registry.deprecatedApis) :
         registry.deprecatedApis[c].items =
           SelectSeq(scanned, LAMBDA r : r \in Range(registry.deprecatedApis[c].items))

\* Two scanned records of one category share a name, and a diagnostic shows
\* the earlier one.
C10_Witness ==
  /\ \E c \in 1..Len(registry.deprecatedApis) :
       /\ Len(registry.deprecatedApis[c].items) > 1
       /\ registry.deprecatedApis[c].items[1] # registry.deprecatedApis[c].items[2]
       /\ toLowerCase(registry.deprecatedApis[c].items[1].name)
            = toLowerCase(registry.deprecatedApis[c].items[2].name)
       /\ \E i \in 1..Len(diags) :
            /\ Shows(diags[i], registry.deprecatedApis[c].items[1])
            /\ ~Shows(diags[i], registry.deprecatedApis[c].items[2])

\* ------------------------------------------------- claims on the extractor

\* The category name the kind followed by "s" spells, kind by kind, and
\* functions for the kind unknown.
NamedCategory(kind) ==
  IF kind = type_function THEN <<"f","u","n","c","t","i","o","n","s">>
  ELSE IF kind = type_class THEN <<"c","l","a","s","s","s">>
  ELSE IF kind = type_constant THEN <<"c","o","n","s","t","a","n","t","s">>
  ELSE IF kind = type_type THEN <<"t","y","p","e","s">>
  ELSE IF kind = type_property THEN <<"p","r","o","p","e","r","t","y","s">>
  ELSE IF kind = type_import THEN <<"i","m","p","o","r","t","s">>
  ELSE <<"f","u","n","c","t","i","o","n","s">>

\* The records of the items found so far whose kind names the category, in
\* the order they were found.
FiledUnder(category) ==
  LET idx == SelectSeq([k \in 1..Len(found) |-> k],
                       LAMBDA k : NamedCategory(found[k].item.type) = category)
  IN  [j \in 1..Len(idx) |-> scanned[idx[j]]]

\* A registry record as the name index holds it: with its category.
WithCategory(r, category) ==
  [ name |-> r.name, reason |-> r.reason, file |-> r.file, line |-> r.line,
    context |-> r.context, category |-> category ]

\* C11: every extracted item is filed under the category its kind followed
\* by "s" names, an item of kind unknown under functions, and under no
\* other; the name index the matcher builds holds the records of exactly
\* those categories, each with that category name.
C11_KindNamesCategory ==
  /\ Len(scanned) = Len(found)
  /\ \A k \in 1..Len(found) : NamedCategory(found[k].item.type) \in Keys(deprecatedApis)
  /\ \A c \in 1..Len(deprecatedApis) :
       deprecatedApis[c].items = FiledUnder(deprecatedApis[c].category)
  /\ pc = "loaded" =>
       /\ \A c \in 1..Len(registry.deprecatedApis) :
            \A i \in 1..Len(registry.deprecatedApis[c].items) :
              LET r == registry.deprecatedApis[c].items[i]
              IN  /\ toLowerCase(r.name) \in DOMAIN deprecatedLookup
                  /\ WithCategory(r, registry.deprecatedApis[c].category)
                       \in Range(deprecatedLookup[toLowerCase(r.name)])
       /\ \A key \in DOMAIN deprecatedLookup :
            \A j \in 1..Len(deprecatedLookup[key]) :
              \E c \in 1..Len(registry.deprecatedApis) :
                /\ registry.deprecatedApis[c].category = deprecatedLookup[key][j].category
                /\ \E i \in 1..Len(registry.deprecatedApis[c].items) :
                     WithCategory(registry.deprecatedApis[c].items[i],
                                  registry.deprecatedApis[c].category) = deprecatedLookup[key][j]

\* The matcher has loaded a registry in which a class item is filed under
\* classs, a property item under propertys and an item of kind unknown
\* under functions.
C11_Witness ==
  /\ pc = "loaded"
  /\ later = 0
  /\ \E k \in 1..Len(found) :
       /\ found[k].item.type = unknown
       /\ scanned[k] \in Range(registry.deprecatedApis[1].items)
  /\ \E a, b \in 1..Len(found) :
       /\ found[a].item.type = type_class
       /\ found[b].item.type = type_property
       /\ \E key \in DOMAIN deprecatedLookup :
            WithCategory(scanned[a], <<"c","l","a","s","s","s">>) \in Range(deprecatedLookup[key])
       /\ \E key \in DOMAIN deprecatedLookup :
            WithCategory(scanned[b], <<"p","r","o","p","e","r","t","y","s">>)
              \in Range(deprecatedLookup[key])


\* C12: the object generateOutput returned has totalCount equal to the sum
\* of the sizes of the categories of its deprecatedApis, and keeps that
\* after any later operation on the extractor that produced it.
C12_TotalCountStaysSum ==
  output # NoRegistry =>
    /\ output.totalCount = getTotalCount(output.deprecatedApis)
    /\ pc \in {"written", "loaded"} => output = registry


WithoutFailing(dir) == [dir EXCEPT !.files = SelectSeq(@, LAMBDA file : file.readable)]

\* The categories after scanning the files at the paths, one after the
\* other, each read from the directory at dirPath.
RECURSIVE ScannedInOrder(_, _, _, _)
ScannedInOrder(apis, dir, dirPath, paths) ==
  IF paths = <<>> THEN apis
  ELSE LET k == CHOOSE k \in 1..Len(dir.files) : pathJoin(dirPath, dir.files[k].path) = Head(paths)
       IN  ScannedInOrder(scanFile(apis, Head(paths), dir.files[k]), dir, dirPath, Tail(paths))

\* The categories of a run over the source paths up to the n-th, with the
\* files that cannot be read absent from the disk.
RECURSIVE RunWithoutFailing(_)
RunWithoutFailing(n) ==
  IF n = 0 THEN NewDeprecatedApis
  ELSE LET dir == WithoutFailing(DirectoryAt(n))
       IN  IF dir.exists
           THEN ScannedInOrder(RunWithoutFailing(n - 1), dir, FRONTEND_SOURCE_PATHS[n],
                               scanDirectory(dir, FRONTEND_SOURCE_PATHS[n]))
           ELSE RunWithoutFailing(n - 1)

\* console.error has reported the file.
LoggedFailure(filePath) == [level |-> "error", path |-> filePath] \in Range(log)

\* C14: a file whose read fails is logged and contributes no record, and the
\* registry main writes at the end of the run is, as it is written, the
\* registry of the same run over the disk without that file: the files
\* after it, of its own root and of the roots after, are all scanned.
C14_FailureSkipsOnlyThatFile ==
  /\ \A k \in 1..Len(found) : FileAt(found[k].path).readable
  /\ \A k \in 1..Len(log) : log[k].level = "error" => ~FileAt(log[k].path).readable
  /\ (pc = "written" /\ later = 0) =>
       /\ registry.deprecatedApis = RunWithoutFailing(Len(FRONTEND_SOURCE_PATHS))
       /\ \A filePath \in FilesOnDisk : ~FileAt(filePath).readable => LoggedFailure(filePath)

\* A run over a first root with broken.ts, which cannot be read, between
\* api.ts and utils/clipboard.ts has written its registry: the failure is
\* logged, and the registry holds the record of clipboard.ts, scanned after
\* it, and records of the second root.
C14_Witness ==
  /\ pc = "written"
  /\ later = 0
  /\ disk[1] = "frontend"
  /\ \E k \in 1..Len(log) : log[k].level = "error"
  /\ \E c \in 1..Len(registry.deprecatedApis) :
       \E i \in 1..Len(registry.deprecatedApis[c].items) :
         registry.deprecatedApis[c].items[i].name = <<"s","e","r","i","a","l","i","s","e">>
  /\ \E k \in 1..Len(found) :
       startsWith(found[k].path, FRONTEND_SOURCE_PATHS[2] \o <<"/">>)


\* Some entry of ignorePatterns that does not compile as a regular
\* expression is, character for character, the name.
EqualsMalformed(name) ==
  \E i \in 1..Len(options.ignorePatterns) :
    ~RegExpCompiles(options.ignorePatterns[i]) /\ options.ignorePatterns[i] = name

\* C15: an entry of ignorePatterns that does not compile suppresses exactly
\* the names equal to it, and the entries that compile go on suppressing
\* exactly the names they match: a deprecated name is unreported if and only
\* if a compiled entry matches it or a malformed entry equals it, and is
\* reported at every presentation otherwise.
C15_MalformedPatternIsExactMatch ==
  \A occ \in Occurrences :
    (Deprecated(occ.name) /\ occ.name \notin builtIns) =>
      DiagsAt(occ.loc) = IF IgnoredByPattern(occ.name) \/ EqualsMalformed(occ.name)
                         THEN 0 ELSE ChecksAt(occ.loc)

\* With ignorePatterns ['*serialise', '^on.*d$'], whose first entry does not
\* compile, a use of serialise was reported and a use of onExecuted, which
\* the second entry matches, was not.
C15_Witness ==
  /\ \E i \in 1..Len(options.ignorePatterns) : ~RegExpCompiles(options.ignorePatterns[i])
  /\ \E i \in 1..Len(options.ignorePatterns) : RegExpCompiles(options.ignorePatterns[i])
  /\ \E a, b \in Occurrences :
       /\ Deprecated(a.name) /\ ~IgnoredByPattern(a.name) /\ DiagsAt(a.loc) >= 1
       /\ \E i \in 1..Len(options.ignorePatterns) :
            /\ ~RegExpCompiles(options.ignorePatterns[i])
            /\ endsWith(options.ignorePatterns[i], a.name)
       /\ Deprecated(b.name) /\ IgnoredByPattern(b.name)
       /\ ChecksAt(b.loc) >= 1 /\ DiagsAt(b.loc) = 0


\* The word is the first run of word characters of the text: nothing before
\* it is a word character, and it ends where the run ends.
IsFirstWord(text, word) ==
  /\ word # <<>>
  /\ \E i \in 1..Len(text) :
       /\ \A j \in 1..(i - 1) : ~IsWordChar(text[j])
       /\ i + Len(word) - 1 <= Len(text)
       /\ \A j \in 1..Len(word) : text[i + j - 1] = word[j] /\ IsWordChar(word[j])
       /\ i + Len(word) <= Len(text) => ~IsWordChar(text[i + Len(word)])

\* The text holds a word character.
HasWord(text) == \E i \in 1..Len(text) : IsWordChar(text[i])

\* The record filed for the k-th item found is in the category functions.
FiledUnderFunctions(k) ==
  \E c \in 1..Len(deprecatedApis) :
    /\ deprecatedApis[c].category = cat_functions
    /\ scanned[k] \in Range(deprecatedApis[c].items)

\* C16 as stated: an annotation of kind unknown is recorded, and its record
\* has the name "unknown".
C16_UnknownKindNamedUnknown ==
  \A k \in 1..Len(found) :
    found[k].item.type = unknown => (FiledUnderFunctions(k) /\ scanned[k].name = unknown)

\* C16 amended: an annotation of kind unknown is recorded, under functions,
\* and its record is named by the first run of word characters of its
\* context, and "unknown" only when the context holds no word character.
C16_UnknownKindNamedByFirstWord ==
  \A k \in 1..Len(found) :
    found[k].item.type = unknown =>
      /\ FiledUnderFunctions(k)
      /\ scanned[k].context = found[k].item.context
      /\ IF HasWord(found[k].item.context)
         THEN IsFirstWord(found[k].item.context, scanned[k].name)
         ELSE scanned[k].name = unknown

\* The registry written holds a record of kind unknown named "export", the
\* first word of its context, and one named "unknown", whose context "})"
\* has no word.
C16_Witness ==
  /\ pc = "written"
  /\ \E a, b \in 1..Len(found) :
       /\ found[a].item.type = unknown /\ found[b].item.type = unknown
       /\ scanned[a].name = <<"e","x","p","o","r","t">>
       /\ scanned[b].name = unknown /\ ~HasWord(found[b].item.context)
       /\ {scanned[a], scanned[b]} \subseteq Range(registry.deprecatedApis[1].items)


\* C17: every record, of every category, has a non-empty name: in the
\* extractor's categories after any number of files scanned, and in the
\* registry written from them.
C17_NamesNonEmpty ==
  /\ \A c \in 1..Len(deprecatedApis) :
       \A i \in 1..Len(deprecatedApis[c].items) : deprecatedApis[c].items[i].name # <<>>
  /\ \A c \in 1..Len(registry.deprecatedApis) :
       \A i \in 1..Len(registry.deprecatedApis[c].items) :
         registry.deprecatedApis[c].items[i].name # <<>>

\* The record is in the registry file.
InRegistry(record) ==
  \E c \in 1..Len(registry.deprecatedApis) : record \in Range(registry.deprecatedApis[c].items)

\* The registry written holds the record of an import whose context names no
\* module path and the record of a function whose context has no name where
\* the pattern looks for one, both named "unknown", beside a record named
\* from its context.
C17_Witness ==
  /\ pc = "written"
  /\ \E a, b, c \in 1..Len(found) :
       /\ found[a].item.type = type_import /\ scanned[a].name = unknown
       /\ found[b].item.type = type_function /\ scanned[b].name = unknown
       /\ scanned[c].name # unknown
       /\ InRegistry(scanned[a]) /\ InRegistry(scanned[b]) /\ InRegistry(scanned[c])


\* The numbers of the lines from `before` lines before line ln to `after`
\* lines after it that the file has, without ln itself, in order.
Window(lines, ln, before, after) ==
  SelectSeq([n \in 1..Len(lines) |-> n],
            LAMBDA n : n # ln /\ n >= ln - before /\ n <= ln + after)

\* The trimmed line is blank.
Blank(line) == trim(line) = <<>>

\* The trimmed line is a comment and nothing else begins it: a // comment, a
\* block-comment opener, or a continuation or closer line of a block
\* comment.
CommentOnly(line) ==
  \/ startsWith(trim(line), <<"/","/">>)
  \/ startsWith(trim(line), <<"/","*">>)
  \/ startsWith(trim(line), <<"*">>)

\* The trimmed line begins with "//" or with "*".
BeginsSlashesOrStar(line) ==
  startsWith(trim(line), <<"/","/">>) \/ startsWith(trim(line), <<"*">>)

\* The lines of the file the k-th item was found in.
LinesOf(k) == FileAt(found[k].path).lines

\* C18 as stated: the context is made of the 2 lines before and the 3 lines
\* after the annotation line, without the blank and the comment-only lines,
\* trimmed and joined by single spaces.
C18_TwoBeforeThreeAfter ==
  \A k \in 1..Len(found) :
    LET kept == SelectSeq(Window(LinesOf(k), found[k].item.line, 2, 3),
                          LAMBDA n : ~Blank(LinesOf(k)[n]) /\ ~CommentOnly(LinesOf(k)[n]))
    IN  found[k].item.context = join([j \in 1..Len(kept) |-> trim(LinesOf(k)[kept[j]])])

\* C18 amended: the context is made of the 2 lines before and the 2 lines
\* after the annotation line that the file has, without the blank lines and
\* the lines whose trimmed text begins with "//" or "*", trimmed and joined
\* by single spaces; a line that opens a block comment with "/*" stays.
C18_TwoBeforeTwoAfter ==
  \A k \in 1..Len(found) :
    LET kept == SelectSeq(Window(LinesOf(k), found[k].item.line, 2, 2),
                          LAMBDA n : ~Blank(LinesOf(k)[n]) /\ ~BeginsSlashesOrStar(LinesOf(k)[n]))
    IN  found[k].item.context = join([j \in 1..Len(kept) |-> trim(LinesOf(k)[kept[j]])])

\* Items have been found whose contexts leave out a third line after the
\* annotation that is neither blank nor a comment, keep the "/**" line
\* before the annotation, and join two kept lines; one annotation is on the
\* last line of its file.
C18_Witness ==
  \E a, b, c \in 1..Len(found) :
    /\ found[a].item.line + 3 <= Len(LinesOf(a))
    /\ ~Blank(LinesOf(a)[found[a].item.line + 3])
    /\ ~CommentOnly(LinesOf(a)[found[a].item.line + 3])
    /\ \E i \in 1..Len(found[a].item.context) : found[a].item.context[i] = " "
    /\ startsWith(found[b].item.context, <<"/","*","*"," ">>)
    /\ found[c].item.line = Len(LinesOf(c))
    /\ found[c].item.context # <<>>


\* The text without its first n characters.
Rest(text, n) == SubText(text, n + 1, Len(text) + 1)

\* The text without the white space it begins with.
RECURSIVE SkipSpaces(_)
SkipSpaces(text) ==
  IF text # <<>> /\ IsSpaceChar(Head(text)) THEN SkipSpaces(Tail(text)) ELSE text

\* The text without the word characters it begins with.
RECURSIVE SkipWord(_)
SkipWord(text) ==
  IF text # <<>> /\ IsWordChar(Head(text)) THEN SkipWord(Tail(text)) ELSE text

\* The text from its first ")" on, or nothing when it has none.
RECURSIVE SkipToParen(_)
SkipToParen(text) ==
  IF text # <<>> /\ Head(text) # ")" THEN SkipToParen(Tail(text)) ELSE text

\* The text begins with the keyword and white space after it.
BeginsKeyword(text, kw) ==
  startsWith(text, kw) /\ Len(text) > Len(kw) /\ IsSpaceChar(text[Len(kw) + 1])

\* The context, and the context without a leading `export `.
Declarations(context) ==
  {context} \cup (IF BeginsKeyword(context, kw_export)
                  THEN {SkipSpaces(Rest(context, Len(kw_export)))} ELSE {})

\* const name = (...) => at the start of the text.
BeginsArrowConst(text) ==
  /\ BeginsKeyword(text, kw_const)
  /\ LET name == SkipSpaces(Rest(text, Len(kw_const)))
         eq == SkipSpaces(SkipWord(name))
         params == SkipSpaces(Rest(eq, 1))
         close == SkipToParen(Rest(params, 1))
     IN  /\ SkipWord(name) # name
         /\ startsWith(eq, <<"=">>)
         /\ startsWith(params, <<"(">>)
         /\ startsWith(close, <<")">>)
         /\ startsWith(SkipSpaces(Rest(close, 1)), <<"=",">">>)

\* The six tests of the classification, each on the start of the context.
FunctionLike(context) ==
  \E d \in Declarations(context) :
    \/ startsWith(d, kw_function)
    \/ BeginsArrowConst(d)
    \/ BeginsKeyword(d, kw_async) /\ startsWith(SkipSpaces(Rest(d, Len(kw_async))), kw_function)

ClassLike(context) ==
  \E d \in Declarations(context) : \E kw \in {kw_class, kw_interface, kw_type} : BeginsKeyword(d, kw)

VariableLike(context) ==
  \E d \in Declarations(context) : \E kw \in {kw_const, kw_let, kw_var} : BeginsKeyword(d, kw)

TypeAliasLike(context) == \E d \in Declarations(context) : BeginsKeyword(d, kw_type)

PropertyLike(context) ==
  SkipWord(context) # context /\ startsWith(SkipSpaces(SkipWord(context)), <<":">>)

ImportLike(context) == BeginsKeyword(context, kw_import)

\* C19: the kind of an item is that of the first test its context passes, in
\* the order function-like form, class/interface/type declaration,
\* const/let/var declaration, type alias, property, import; a context that
\* passes none is of kind unknown.
C19_FirstMatchingTestWins ==
  \A k \in 1..Len(found) :
    LET context == found[k].item.context
    IN  found[k].item.type =
          IF FunctionLike(context) THEN type_function
          ELSE IF ClassLike(context) THEN type_class
          ELSE IF VariableLike(context) THEN type_constant
          ELSE IF TypeAliasLike(context) THEN type_type
          ELSE IF PropertyLike(context) THEN type_property
          ELSE IF ImportLike(context) THEN type_import
          ELSE unknown

\* Items have been found of a context that passes the function and the
\* variable test, classified function, of one that passes the class and the
\* type-alias test, classified class, and of the kinds constant, property,
\* import and unknown.
C19_Witness ==
  /\ \E k \in 1..Len(found) :
       /\ found[k].item.type = type_function
       /\ VariableLike(found[k].item.context)
  /\ \E k \in 1..Len(found) :
       /\ found[k].item.type = type_class
       /\ TypeAliasLike(found[k].item.context)
  /\ \A kind \in {type_constant, type_property, type_import, unknown} :
       \E k \in 1..Len(found) : found[k].item.type = kind


\* The word characters the text begins with.
WordAt(text) == SubText(text, 1, Len(text) - Len(SkipWord(text)) + 1)

\* The word after the keyword and white space the text begins with, as a
\* sequence of one name, or of none when the text does not begin so.
NameAfter(text, kw) ==
  IF BeginsKeyword(text, kw) /\ WordAt(SkipSpaces(Rest(text, Len(kw)))) # <<>>
  THEN <<WordAt(SkipSpaces(Rest(text, Len(kw))))>>
  ELSE <<>>

\* The first of the sequences that holds a name.
FirstOf(captures) ==
  LET hits == SelectSeq(captures, LAMBDA c : c # <<>>)
  IN  IF hits = <<>> THEN <<>> ELSE Head(hits)

\* The text from its first quote character on.
RECURSIVE SkipToQuote(_)
SkipToQuote(text) ==
  IF text # <<>> /\ Head(text) \notin {"'", "\""} THEN SkipToQuote(Tail(text)) ELSE text

\* from '<path>' at the start of the text: the path, quoted either way.
FromPathAt(text) ==
  IF BeginsKeyword(text, kw_from)
  THEN LET quoted == SkipSpaces(Rest(text, Len(kw_from)))
           path == Rest(quoted, 1)
       IN  IF /\ quoted # <<>> /\ Head(quoted) \in {"'", "\""}
              /\ SkipToQuote(path) # <<>> /\ SkipToQuote(path) # path
           THEN <<SubText(path, 1, Len(path) - Len(SkipToQuote(path)) + 1)>>
           ELSE <<>>
  ELSE <<>>

\* The path of the first from clause of the text.
RECURSIVE FirstFromPath(_)
FirstFromPath(text) ==
  IF text = <<>> THEN <<>>
  ELSE IF FromPathAt(text) # <<>> THEN FromPathAt(text)
  ELSE FirstFromPath(Tail(text))

\* What the pattern of the kind captures when it matches at the start of the
\* text; the kind unknown has the pattern of one word.
CaptureAt(text, kind) ==
  IF kind = type_function
  THEN FirstOf(<< NameAfter(text, kw_function),
                  IF /\ NameAfter(text, kw_const) # <<>>
                     /\ startsWith(SkipSpaces(SkipWord(SkipSpaces(Rest(text, Len(kw_const))))),
                                   <<"=">>)
                  THEN NameAfter(text, kw_const) ELSE <<>>,
                  LET params == SkipSpaces(SkipWord(text))
                      close == SkipToParen(Rest(params, 1))
                  IN  IF /\ WordAt(text) # <<>>
                         /\ startsWith(params, <<"(">>)
                         /\ startsWith(close, <<")">>)
                         /\ startsWith(SkipSpaces(Rest(close, 1)), <<"{">>)
                      THEN <<WordAt(text)>> ELSE <<>> >>)
  ELSE IF kind = type_class
  THEN FirstOf(<<NameAfter(text, kw_class), NameAfter(text, kw_interface),
                 NameAfter(text, kw_type)>>)
  ELSE IF kind = type_constant
  THEN FirstOf(<<NameAfter(text, kw_const), NameAfter(text, kw_let), NameAfter(text, kw_var)>>)
  ELSE IF kind = type_type THEN NameAfter(text, kw_type)
  ELSE IF kind = type_property
  THEN IF WordAt(text) # <<>> /\ startsWith(SkipSpaces(SkipWord(text)), <<":">>)
       THEN <<WordAt(text)>> ELSE <<>>
  ELSE IF kind = type_import
  THEN IF BeginsKeyword(text, kw_import)
       THEN FirstFromPath(Rest(text, Len(kw_import) + 1)) ELSE <<>>
  ELSE IF WordAt(text) # <<>> THEN <<WordAt(text)>> ELSE <<>>

\* What the pattern of the kind captures at the first place of the text
\* where it matches, as a sequence of one name, or of none.
RECURSIVE FirstCapture(_, _)
FirstCapture(text, kind) ==
  IF text = <<>> THEN <<>>
  ELSE IF CaptureAt(text, kind) # <<>> THEN CaptureAt(text, kind)
  ELSE FirstCapture(Tail(text), kind)

\* C20 as stated: the name is the capture of the pattern of the kind; when
\* that pattern does not match, the first word of the context; and
\* "unknown" only when the context has no word either.
C20_GenericPatternAsLastResort ==
  \A k \in 1..Len(found) :
    LET own == FirstCapture(found[k].item.context, found[k].item.type)
        generic == FirstCapture(found[k].item.context, unknown)
    IN  scanned[k].name = IF own # <<>> THEN own[1]
                          ELSE IF generic # <<>> THEN generic[1]
                          ELSE unknown

\* C20 amended: the name is the capture of the pattern of the kind (the
\* module path for an import); the pattern of one word stands in only for
\* the kind unknown, which has no pattern of its own; when the pattern used
\* does not match the context the name is "unknown".
C20_GenericPatternForUnknownOnly ==
  \A k \in 1..Len(found) :
    LET own == FirstCapture(found[k].item.context, found[k].item.type)
    IN  scanned[k].name = IF own # <<>> THEN own[1] ELSE unknown

\* Records have been filed for an import named by its module path, for an
\* import and a function whose patterns do not match their contexts, named
\* "unknown" with words in the context, for a function named by its
\* pattern, and for an item of kind unknown named by its first word.
C20_Witness ==
  \E a, b, c, d, e \in 1..Len(found) :
    /\ found[a].item.type = type_import
    /\ scanned[a].name = <<"l","i","b","/","a","p","i">>
    /\ found[b].item.type = type_import
    /\ scanned[b].name = unknown /\ HasWord(found[b].item.context)
    /\ found[c].item.type = type_function
    /\ scanned[c].name = unknown /\ HasWord(found[c].item.context)
    /\ found[d].item.type = type_function
    /\ scanned[d].name = <<"s","e","r","i","a","l","i","s","e">>
    /\ found[e].item.type = unknown
    /\ scanned[e].name = <<"e","x","p","o","r","t">>


\* ------------------------------------------ claims on annotations and index

\* The line holds the marker @deprecated, in any casing.
HoldsMarker(line) == \E p \in 1..Len(line) : MarkerAt(line, p)

\* The trimmed text of the line after its first marker.
TextAfterMarker(line) ==
  LET p == CHOOSE p \in 1..Len(line) :
             MarkerAt(line, p) /\ \A q \in 1..(p - 1) : ~MarkerAt(line, q)
  IN  trim(SubText(line, p + Len(marker), Len(line) + 1))

\* C21: when the run has written its registry, every line with the marker
\* of every file read has yielded an item, whose reason is the trimmed text
\* after the marker, or "No reason provided" when there is none.
C21_EveryAnnotationLineRecorded ==
  (pc = "written" /\ later = 0) =>
    \A filePath \in FilesOnDisk :
      FileAt(filePath).readable =>
        \A n \in 1..Len(FileAt(filePath).lines) :
          HoldsMarker(FileAt(filePath).lines[n]) =>
            \E k \in 1..Len(found) :
              /\ found[k].path = filePath
              /\ found[k].item.line = n
              /\ found[k].item.reason =
                   IF TextAfterMarker(FileAt(filePath).lines[n]) # <<>>
                   THEN TextAfterMarker(FileAt(filePath).lines[n])
                   ELSE NoReasonProvided


\* The number of records the index holds under the keys.
RECURSIVE IndexSize(_)
IndexSize(keys) ==
  IF keys = {} THEN 0
  ELSE LET key == CHOOSE key \in keys : TRUE
       IN  Len(deprecatedLookup[key]) + IndexSize(keys \ {key})

\* C22: the index of a loaded registry holds, under every key, the records
\* of the registry whose lowercased name is the key, all of them and in
\* registry order, each with its category; every record has its key, and
\* the index holds totalCount records in all.
C22_IndexHoldsEveryRecord ==
  pc = "loaded" =>
    /\ \A i \in 1..Len(RegistryRecords) : toLowerCase(RegistryRecords[i].name) \in DOMAIN deprecatedLookup
    /\ \A key \in DOMAIN deprecatedLookup :
         /\ deprecatedLookup[key] # <<>>
         /\ deprecatedLookup[key] =
              SelectSeq(RegistryRecords, LAMBDA r : toLowerCase(r.name) = key)
    /\ IndexSize(DOMAIN deprecatedLookup) = registry.totalCount

\* The index of a loaded registry holds two records of different categories
\* under one key, and a second key.
C22_Witness ==
  /\ pc = "loaded"
  /\ \E key, other \in DOMAIN deprecatedLookup :
       /\ key # other
       /\ \E a, b \in 1..Len(deprecatedLookup[key]) :
            /\ a < b
            /\ deprecatedLookup[key][a].category # deprecatedLookup[key][b].category


\* The categories changed in the step.
ChangedCategories ==
  {c \in 1..Len(deprecatedApis') :
     c > Len(deprecatedApis) \/ deprecatedApis'[c] # deprecatedApis[c]}

\* C23: a step that categorizes an item leaves every category in its place
\* under its name, changes one category only, and there only appends one
\* record to the records the category held.
C23_CategorizeAppendsOneRecord ==
  [][ deprecatedApis' # deprecatedApis =>
        /\ Len(deprecatedApis') >= Len(deprecatedApis)
        /\ \A c \in 1..Len(deprecatedApis) :
             deprecatedApis'[c].category = deprecatedApis[c].category
        /\ Cardinality(ChangedCategories) = 1
        /\ \A c \in ChangedCategories :
             /\ Len(deprecatedApis'[c].items) =
                  (IF c <= Len(deprecatedApis) THEN Len(deprecatedApis[c].items) ELSE 0) + 1
             /\ c <= Len(deprecatedApis) =>
                  \A i \in 1..Len(deprecatedApis[c].items) :
                    deprecatedApis'[c].items[i] = deprecatedApis[c].items[i]
             /\ deprecatedApis'[c].items[Len(deprecatedApis'[c].items)] = scanned'[Len(scanned')]
        /\ getTotalCount(deprecatedApis') = getTotalCount(deprecatedApis) + 1
    ]_vars

\* Two items of one name have been categorized, one after the other, and
\* their category holds both records.
C23_Witness ==
  /\ Len(scanned) >= 2
  /\ \E c \in 1..Len(deprecatedApis) :
       /\ Len(deprecatedApis[c].items) >= 2
       /\ deprecatedApis[c].items[1].name = deprecatedApis[c].items[2].name
       /\ deprecatedApis[c].items[1] = scanned[1]
       /\ deprecatedApis[c].items[2] = scanned[2]


\* The source paths at which the run found a directory and scanned it, in
\* the order of FRONTEND_SOURCE_PATHS.
ScannedRoots ==
  LET existing == SelectSeq([n \in 1..Len(FRONTEND_SOURCE_PATHS) |-> n],
                            LAMBDA n : DirectoryAt(n).exists)
  IN  [j \in 1..Len(existing) |-> FRONTEND_SOURCE_PATHS[existing[j]]]

\* C24: the registry a run has written lists as its sources the roots the
\* run scanned, in order; a root that does not exist has a warning in the
\* log, and the files of the roots after it are scanned all the same.
C24_SourcesAreScannedRoots ==
  (pc = "written" /\ later = 0) =>
    /\ registry.sources = ScannedRoots
    /\ \A n \in 1..Len(FRONTEND_SOURCE_PATHS) :
         ~DirectoryAt(n).exists <=>
           [level |-> "warn", path |-> FRONTEND_SOURCE_PATHS[n]] \in Range(log)
    /\ registry.deprecatedApis = RunWithoutFailing(Len(FRONTEND_SOURCE_PATHS))


\* The traversal of the session is over.
Finished(s) == s # NoSession /\ s.todo = <<>> /\ s.visited # <<>>

\* Two sessions of one file under one rule entry.
SameFileAndEntry(s, t) ==
  s.visited = t.visited /\ s.options = t.options /\ s.ruleLevel = t.ruleLevel

\* C25: once the rule module is loaded, no step of the host changes the
\* index or the registry; and the keys looked up and the diagnostics of a
\* finished file are those of the first file linted, and of a file that
\* waited, whenever file, options and level are the same.
C25_LintingLeavesIndexAlone ==
  /\ [][ pc = "loaded" => (deprecatedLookup' = deprecatedLookup /\ registry' = registry) ]_vars
  /\ [](\A s \in {first, paused} :
          (Finished(s) /\ Finished(CurrentSession) /\ SameFileAndEntry(s, CurrentSession)) =>
            (s.diags = diags /\ s.lookedUp = lookedUp))

\* The first file linted and a file finished after it are the same file
\* under the same options, both with the same diagnostics, while a file
\* linted under other options waits that was begun before the later one
\* and has diagnostics of its own.
C25_Witness ==
  /\ Finished(first) /\ Finished(CurrentSession) /\ SameFileAndEntry(first, CurrentSession)
  /\ diags # <<>> /\ first.diags = diags
  /\ paused # NoSession
  /\ paused.options # options
  /\ paused.diags # <<>> /\ paused.todo # <<>>


\* ------------------------------------------- claims on the line matching

\* The reasons of the items found on line n of the file, in the order found.
ReasonsAt(filePath, n) ==
  LET onLine == SelectSeq(found, LAMBDA f : f.path = filePath /\ f.item.line = n)
  IN  [k \in 1..Len(onLine) |-> onLine[k].item.reason]

\* The reasons the three patterns give for the line taken alone, each
\* pattern matching from the start of the line: one for every pattern that
\* recognizes the line, in the order of the patterns.
ReasonsOfLineAlone(line) ==
  LET alone == DEPRECATED_PATTERNS(line)
      reason(n) == IF alone[n].found THEN << deprecationReason(alone[n]) >> ELSE <<>>
  IN  reason(1) \o reason(2) \o reason(3)

\* C26: what the patterns find on a line depends on the text of the line
\* only. Every item found, in a run or by a later scan, has a reason the
\* line taken alone gives; and when main has written the registry, the items
\* of every line of every file read are exactly those the line taken alone
\* gives, pattern by pattern, whatever lines and files were matched before.
C26_LineOutcomeDependsOnLineOnly ==
  /\ \A k \in 1..Len(found) :
       found[k].item.reason \in
         Range(ReasonsOfLineAlone(FileAt(found[k].path).lines[found[k].item.line]))
  /\ (pc = "written" /\ later = 0) =>
       \A filePath \in FilesOnDisk :
         FileAt(filePath).readable =>
           \A n \in 1..Len(FileAt(filePath).lines) :
             ReasonsAt(filePath, n) = ReasonsOfLineAlone(FileAt(filePath).lines[n])

\* A run has written its registry after finding an item on the last line of
\* one file and, with the very next match, an item on the first line of the
\* file scanned after it: the pattern that matched the former was left with
\* its lastIndex inside that line when the latter was matched.
C26_Witness ==
  /\ pc = "written" /\ later = 0
  /\ \E k \in 2..Len(found) :
       /\ found[k - 1].path # found[k].path
       /\ found[k - 1].item.line = Len(FileAt(found[k - 1].path).lines)
       /\ found[k].item.line = 1

\* The patterns that recognize the line taken alone.
PatternsRecognizing(line) == { n \in 1..3 : DEPRECATED_PATTERNS(line)[n].found }

\* The items found on line n of the file.
ItemsAt(filePath, n) == SelectSeq(found, LAMBDA f : f.path = filePath /\ f.item.line = n)

\* The line holds a comment of the form // @deprecated reason.
SlashesAnnotation(line) ==
  \E p \in 1..Len(line) :
    /\ HasAt(line, p, <<"/","/">>)
    /\ \E q \in (p + 2)..Len(line) :
         /\ \A k \in (p + 2)..(q - 1) : IsSpaceChar(line[k])
         /\ MarkerAt(line, q)
         /\ q + Len(marker) + 1 <= Len(line)
         /\ IsSpaceChar(line[q + Len(marker)])

\* The line holds a comment of the form /** @deprecated reason */, opened
\* and closed on the line.
OneLineBlockAnnotation(line) ==
  \E p \in 1..Len(line) :
    /\ HasAt(line, p, <<"/","*","*">>)
    /\ \E q \in (p + 3)..Len(line) :
         /\ MarkerAt(line, q)
         /\ IsSpaceChar(line[q + Len(marker)])
         /\ \E c \in (q + Len(marker) + 1)..Len(line) : HasAt(line, c, <<"*","/">>)

\* The lines of the files read on which an item was found.
LinesWithItems == { << found[k].path, found[k].item.line >> : k \in 1..Len(found) }

\* C27: when the run has written its registry, a line of a file read that k
\* of the three patterns recognize has yielded k items, all with that file
\* and line; a // @deprecated reason line and a one-line
\* /** @deprecated reason */ have each yielded two or more; and totalCount
\* counts every one of the items, so a line counts once per pattern.
C27_OneRecordPerMatchingPattern ==
  (pc = "written" /\ later = 0) =>
    /\ \A filePath \in FilesOnDisk :
         FileAt(filePath).readable =>
           \A n \in 1..Len(FileAt(filePath).lines) :
             LET line == FileAt(filePath).lines[n]
             IN  /\ Len(ItemsAt(filePath, n)) = Cardinality(PatternsRecognizing(line))
                 /\ \A k \in 1..Len(ItemsAt(filePath, n)) :
                      ItemsAt(filePath, n)[k].item.file = getRelativePath(filePath)
                 /\ SlashesAnnotation(line) => Len(ItemsAt(filePath, n)) >= 2
                 /\ OneLineBlockAnnotation(line) => Len(ItemsAt(filePath, n)) >= 2
    /\ registry.totalCount = Len(found)

\* A run has written a registry whose totalCount is above the number of
\* lines with an annotation: the files read hold a // @deprecated reason
\* line and a one-line /** @deprecated reason */, each found twice.
C27_Witness ==
  /\ pc = "written" /\ later = 0
  /\ registry.totalCount > Cardinality(LinesWithItems)
  /\ \E f \in LinesWithItems :
       SlashesAnnotation(FileAt(f[1]).lines[f[2]]) /\ Len(ItemsAt(f[1], f[2])) = 2
  /\ \E f \in LinesWithItems :
       OneLineBlockAnnotation(FileAt(f[1]).lines[f[2]]) /\ Len(ItemsAt(f[1], f[2])) >= 2

\* ------------------------------------- claims on the constructor's categories

\* The records of the category of that name in apis, none when apis has no
\* such category.
RecordsUnder(apis, name) ==
  IF name \in Keys(apis)
  THEN apis[CHOOSE c \in 1..Len(apis) : apis[c].category = name].items
  ELSE <<>>

\* The categories classes, properties and types are in apis, as the
\* constructor made them, and hold no record.
PluralCategoriesEmpty(apis) ==
  \A name \in { <<"c","l","a","s","s","e","s">>,
                <<"p","r","o","p","e","r","t","i","e","s">>,
                <<"t","y","p","e","s">> } :
    name \in Keys(apis) /\ RecordsUnder(apis, name) = <<>>

\* C28: classes, properties and types stay empty, in the extractor and in
\* the registry written from it. No item is of kind type: an item whose
\* context begins a type alias is of kind class, or function when the
\* function test found its word first. The record of an item of kind class
\* is under classs and the record of an item of kind property under
\* propertys.
C28_ConstructorCategoriesStayEmpty ==
  /\ PluralCategoriesEmpty(deprecatedApis)
  /\ pc \in {"written", "loaded"} => PluralCategoriesEmpty(registry.deprecatedApis)
  /\ Len(scanned) = Len(found)
  /\ \A k \in 1..Len(found) :
       /\ found[k].item.type # type_type
       /\ TypeAliasLike(found[k].item.context) => found[k].item.type \in {type_class, type_function}
       /\ found[k].item.type = type_class =>
            scanned[k] \in Range(RecordsUnder(deprecatedApis, <<"c","l","a","s","s","s">>))
       /\ found[k].item.type = type_property =>
            scanned[k] \in Range(RecordsUnder(deprecatedApis, <<"p","r","o","p","e","r","t","y","s">>))

\* A run has written a registry with records under classs, one of them for
\* a type alias, and under propertys, and none under classes, properties and
\* types.
C28_Witness ==
  /\ pc = "written"
  /\ PluralCategoriesEmpty(registry.deprecatedApis)
  /\ RecordsUnder(registry.deprecatedApis, <<"p","r","o","p","e","r","t","y","s">>) # <<>>
  /\ \E k \in 1..Len(found) :
       /\ TypeAliasLike(found[k].item.context)
       /\ found[k].item.type = type_class
       /\ scanned[k] \in Range(RecordsUnder(registry.deprecatedApis, <<"c","l","a","s","s","s">>))

\* ------------------------------------------------------ claims on imports

\* How many times the traversal has visited the node.
VisitsOf(node) == Cardinality({i \in 1..Len(visited) : visited[i] = node})

\* The diagnostics at loc, each naming the identifier name, are as many as
\* the visits of the node when the name is one the rule reports, and none
\* otherwise.
ReportedAs(node, loc, name) ==
  /\ \A i \in 1..Len(diags) : diags[i].node = loc => diags[i].data.name = name
  /\ DiagsAt(loc) = IF Reportable(name) THEN VisitsOf(node) ELSE 0

\* C29: at a named import the rule looks up the imported name and reports
\* at it; the local alias, when it is another identifier, is not looked up
\* there and has no diagnostic, deprecated or not. At a default and at a
\* namespace import the rule looks up the local name and reports at it.
C29_ImportLooksUpImportedName ==
  \A i \in 1..Len(visited) :
    LET node == visited[i]
    IN  /\ node.type = "ImportSpecifier" =>
             /\ ReportedAs(node, node.imported.loc, node.imported.name)
             /\ node.local.loc # node.imported.loc => DiagsAt(node.local.loc) = 0
             /\ node.imported.name \notin builtIns =>
                  toLowerCase(node.imported.name) \in Range(lookedUp)
        /\ node.type \in {"ImportDefaultSpecifier", "ImportNamespaceSpecifier"} =>
             /\ ReportedAs(node, node.local.loc, node.local.name)
             /\ node.local.name \notin builtIns =>
                  toLowerCase(node.local.name) \in Range(lookedUp)

\* One file has been traversed past import { a as b } with a reported and b
\* not in the registry, import { b as a } with the same two names, and a
\* default import of a: there is a diagnostic at the first a and at the
\* default import, and none at the second import.
C29_Witness ==
  \E i, j, k \in 1..Len(visited) :
    /\ visited[i].type = "ImportSpecifier"
    /\ Reportable(visited[i].imported.name) /\ ~Deprecated(visited[i].local.name)
    /\ DiagsAt(visited[i].imported.loc) = 1
    /\ visited[j].type = "ImportSpecifier"
    /\ Reportable(visited[j].local.name) /\ ~Deprecated(visited[j].imported.name)
    /\ DiagsAt(visited[j].imported.loc) = 0 /\ DiagsAt(visited[j].local.loc) = 0
    /\ visited[k].type = "ImportDefaultSpecifier"
    /\ Reportable(visited[k].local.name)
    /\ DiagsAt(visited[k].local.loc) = 1

\* ------------------------------------------------- claims on letter case

\* The two texts differ, and only in the case of their letters.
DiffersOnlyInCase(a, b) == a # b /\ toLowerCase(a) = toLowerCase(b)

\* Some ignore pattern of the options is the name in another casing.
PatternInOtherCase(name) ==
  \E i \in 1..Len(options.ignorePatterns) : DiffersOnlyInCase(options.ignorePatterns[i], name)

\* Some built-in name is the name in another casing.
BuiltInInOtherCase(name) == \E b \in builtIns : DiffersOnlyInCase(b, name)

\* C30: an identifier of a deprecated name that an ignore pattern, or a
\* built-in name, equals up to letter case only, and that no pattern matches
\* and no built-in name equals as it is written, is looked up by its
\* lowercased form and reported every time it is presented.
C30_OtherCaseDoesNotSuppress ==
  \A occ \in Occurrences :
    ( /\ PatternInOtherCase(occ.name) \/ BuiltInInOtherCase(occ.name)
      /\ Deprecated(occ.name)
      /\ occ.name \notin builtIns
      /\ ~IgnoredByPattern(occ.name) )
    => /\ toLowerCase(occ.name) \in Range(lookedUp)
       /\ DiagsAt(occ.loc) = ChecksAt(occ.loc)
       /\ DiagsAt(occ.loc) >= 1
       /\ \A i \in 1..Len(diags) : diags[i].node = occ.loc => diags[i].data.name = occ.name

\* Under the options ignoring serialise and onExecuted and a registry with
\* records named serialise and Set, a file has been traversed past
\* Serialise, written in another casing than the pattern, and past set,
\* written in another casing than the built-in name: both are reported.
C30_Witness ==
  \E a, b \in Occurrences :
    /\ PatternInOtherCase(a.name) /\ ~IgnoredByPattern(a.name) /\ DiagsAt(a.loc) >= 1
    /\ BuiltInInOtherCase(b.name) /\ b.name \notin builtIns /\ DiagsAt(b.loc) >= 1

====
